---- MODULE Spec2Model ----
(***************************************************************************)
(* BillGuard: the total-hierarchy resolution, discrepancy calculation,     *)
(* deduction validation and bill-analysis request of the repository.       *)
(*                                                                         *)
(* Monetary amounts are integers in centavos (1 peso = 100), so the        *)
(* source's peso thresholds 1, 10 and 100 appear as 100, 1000 and 10000.   *)
(* Labels and status strings that the code searches with includes() are    *)
(* sequences of one-character strings, so that toLowerCase, trim and the   *)
(* substring search are computed, not assumed.  A value that may be null   *)
(* in the source is a sequence of length 0 (null) or 1.                    *)
(***************************************************************************)
EXTENDS Integers, Sequences, FiniteSets, TLC

VARIABLES
    extractedTotals,  \* argument of buildTotalHierarchy (its level fields are assigned in place)
    hierarchy,        \* the TotalHierarchy returned, <<>> before the call
    discrepancy,      \* the DiscrepancyResult returned by calculateDiscrepancy, <<>> before
    financials,       \* the BillFinancials of a request, <<>> before extraction
    deductionValidation, \* the DeductionValidation returned by validateDeductions, <<>> before
    pc,               \* where an analysis request is: "idle", "extracting", "done"
    billText,         \* what extractTextFromFile returned, <<>> before
    extractionFailed, \* whether extractBillFinancials returned its no-data defaults
    response,         \* the JSON response of the request, <<>> before
    classification,   \* a call of classifyTotal with the level it returned, <<>> before
    scored,           \* a call of scoreGrandTotalCandidate with its score, <<>> before
    selection,        \* the calls of selectBestGrandTotal on one candidate list, <<>> before
    validatedFinancials, \* the financials as they were handed to validateDeductions, <<>> before
    revalidation,     \* what a second validateDeductions(financials) returned, <<>> before
    logs,             \* the module-level array logs of bill-extraction.ts, shared by all requests
    extraction        \* per request: where its extractBillFinancials is and what it logged

libraryVars == <<extractedTotals, hierarchy, discrepancy>>

deductionVars == <<financials, deductionValidation>>

requestVars == <<pc, billText, extractionFailed, response>>

keywordVars == <<classification, scored, selection>>

deductionCallVars == <<validatedFinancials, revalidation>>

logVars == <<logs, extraction>>

vars == <<extractedTotals, hierarchy, discrepancy, financials, deductionValidation,
          pc, billText, extractionFailed, response, classification, scored,
          selection, validatedFinancials, revalidation, logs, extraction>>

----------------------------------------------------------------------------
(* Bounds of the model *)

\* longest list of extracted totals handed to buildTotalHierarchy
MaxTotals == 3

\* longest itemized deduction breakdown handed to validateDeductions
MaxDeductionItems == 2

\* longest list of analysed line items a request sees
MaxItems == 2

----------------------------------------------------------------------------
(* Generic helpers *)

Range(s) == {s[i] : i \in DOMAIN s}

Abs(x) == IF x < 0 THEN -x ELSE x

MinOf(S) == CHOOSE x \in S : \A y \in S : x <= y

MaxOf(S) == CHOOSE x \in S : \A y \in S : x >= y

\* all sequences over S of length 0..n
SeqsUpTo(S, n) == UNION {[1..k -> S] : k \in 0..n}

\* Array.prototype.reduce((sum, t) => sum + t.amount, 0)
RECURSIVE SumAmounts(_)
SumAmounts(ts) ==
    IF ts = <<>> THEN 0 ELSE ts[1].amount + SumAmounts(Tail(ts))

UpperChars == <<"A","B","C","D","E","F","G","H","I","J","K","L","M",
                "N","O","P","Q","R","S","T","U","V","W","X","Y","Z">>

LowerChars == <<"a","b","c","d","e","f","g","h","i","j","k","l","m",
                "n","o","p","q","r","s","t","u","v","w","x","y","z">>

\* the lower-case letter of each upper-case letter
LowerOf == [c \in Range(UpperChars) |->
               LowerChars[CHOOSE k \in DOMAIN UpperChars : UpperChars[k] = c]]

\* String.prototype.toLowerCase
ToLowerCase(s) ==
    [i \in DOMAIN s |-> IF s[i] \in DOMAIN LowerOf THEN LowerOf[s[i]] ELSE s[i]]

\* String.prototype.trim
Trim(s) ==
    LET keep == {i \in DOMAIN s : s[i] # " "}
    IN  IF keep = {} THEN <<>> ELSE SubSeq(s, MinOf(keep), MaxOf(keep))

\* String.prototype.includes
Includes(s, k) ==
    \E i \in 1..(Len(s) - Len(k) + 1) :
        \A j \in 1..Len(k) : s[i + j - 1] = k[j]

\* KEYWORDS.some(k => s.includes(k))
IncludesAny(s, keywords) == \E n \in DOMAIN keywords : Includes(s, keywords[n])

----------------------------------------------------------------------------
(* Keyword lists *)

GRAND_TOTAL_KEYWORDS ==
    << <<"g","r","a","n","d"," ","t","o","t","a","l">>,
       <<"g","r","a","n","d"," ","t","o","t","a","l",":">>,
       <<"t","o","t","a","l"," ","a","m","o","u","n","t"," ","d","u","e">>,
       <<"t","o","t","a","l"," ","a","m","o","u","n","t">>,
       <<"a","m","o","u","n","t"," ","d","u","e">>,
       <<"a","m","o","u","n","t"," ","p","a","y","a","b","l","e">>,
       <<"f","i","n","a","l"," ","t","o","t","a","l">>,
       <<"f","i","n","a","l"," ","a","m","o","u","n","t">>,
       <<"t","o","t","a","l"," ","b","a","l","a","n","c","e">>,
       <<"b","a","l","a","n","c","e"," ","d","u","e">>,
       <<"n","e","t"," ","a","m","o","u","n","t"," ","d","u","e">>,
       <<"p","l","e","a","s","e"," ","p","a","y"," ","t","h","i","s"," ","a","m","o","u","n","t">>,
       <<"p","a","t","i","e","n","t"," ","r","e","s","p","o","n","s","i","b","i","l","i","t","y">>,
       <<"d","u","e"," ","f","r","o","m"," ","p","a","t","i","e","n","t">>,
       <<"p","a","t","i","e","n","t"," ","b","a","l","a","n","c","e">>,
       <<"t","o","t","a","l"," ","d","u","e">>,
       <<"p","a","y","a","b","l","e"," ","a","m","o","u","n","t">>,
       <<"k","a","b","u","u","a","n","g"," ","h","a","l","a","g","a">>,
       <<"t","o","t","a","l"," ","n","a"," ","b","a","b","a","y","a","r","a","n">> >>

SECTION_TOTAL_KEYWORDS ==
    << <<"t","o","t","a","l"," ","h","o","s","p","i","t","a","l"," ","c","h","a","r","g","e","s">>,
       <<"h","o","s","p","i","t","a","l"," ","c","h","a","r","g","e","s"," ","t","o","t","a","l">>,
       <<"t","o","t","a","l"," ","p","r","o","f","e","s","s","i","o","n","a","l"," ","f","e","e","s">>,
       <<"p","r","o","f","e","s","s","i","o","n","a","l"," ","f","e","e","s"," ","t","o","t","a","l">>,
       <<"t","o","t","a","l"," ","w","a","r","d"," ","c","h","a","r","g","e","s">>,
       <<"t","o","t","a","l"," ","r","o","o","m"," ","c","h","a","r","g","e","s">>,
       <<"s","u","b","t","o","t","a","l">>,
       <<"s","u","b","-","t","o","t","a","l">>,
       <<"s","u","b"," ","t","o","t","a","l">>,
       <<"c","h","a","r","g","e","s"," ","s","u","b","t","o","t","a","l">> >>

INTERMEDIATE_TOTAL_INDICATORS ==
    << <<"h","o","s","p","i","t","a","l"," ","c","h","a","r","g","e","s">>,
       <<"p","r","o","f","e","s","s","i","o","n","a","l"," ","f","e","e">>,
       <<"r","o","o","m"," ","a","n","d"," ","b","o","a","r","d">>,
       <<"d","r","u","g","s"," ","a","n","d"," ","m","e","d","i","c","i","n","e">>,
       <<"l","a","b","o","r","a","t","o","r","y">>,
       <<"m","i","s","c">>,
       <<"s","u","p","p","l","i","e","s">>,
       <<"w","a","r","d">> >>

StrTotal == <<"t","o","t","a","l">>

StrTotalColon == <<"t","o","t","a","l",":">>

----------------------------------------------------------------------------
(* Labels of the totals on a bill *)

LblGrandTotal == <<"G","R","A","N","D"," ","T","O","T","A","L">>

LblBalanceDue == <<"B","a","l","a","n","c","e"," ","D","u","e">>

LblTotalHospitalCharges == <<"T","o","t","a","l"," ","H","o","s","p","i","t","a","l"," ","C","h","a","r","g","e","s">>

LblTotalProfessionalFees == <<"T","o","t","a","l"," ","P","r","o","f","e","s","s","i","o","n","a","l"," ","F","e","e","s">>

LblTotal == <<"T","o","t","a","l">>

LblLaboratory == <<"L","a","b","o","r","a","t","o","r","y">>
LblEmergencyRoom == <<"E","m","e","r","g","e","n","c","y"," ","R","o","o","m">>

LblXRay == <<"X","-","R","a","y">>

LblAmountDue == <<"A","m","o","u","n","t"," ","D","u","e">>

LblTotalAmountDue == <<"T","o","t","a","l"," ","A","m","o","u","n","t"," ","D","u","e">>

LblGrossTotal == <<"G","R","O","S","S"," ","T","O","T","A","L">>

LblERSubtotal == <<"E","R"," ","S","u","b","t","o","t","a","l">>

LblWardCharges == <<"W","a","r","d"," ","C","h","a","r","g","e","s">>

LblWardSubtotal == <<"W","a","r","d"," ","S","u","b","t","o","t","a","l">>

LblMedications == <<"M","e","d","i","c","a","t","i","o","n","s">>

LblDoctorFee == <<"D","o","c","t","o","r"," ","F","e","e">>

LblHospitalServices == <<"H","o","s","p","i","t","a","l"," ","S","e","r","v","i","c","e","s">>

LblProfessionalFees == <<"P","r","o","f","e","s","s","i","o","n","a","l"," ","F","e","e","s">>

LblLessSeniorDiscount == <<"L","e","s","s",":"," ","S","e","n","i","o","r"," ","C","i","t","i","z","e","n"," ","D","i","s","c","o","u","n","t">>

LblLessHMOCoverage == <<"L","e","s","s",":"," ","H","M","O"," ","C","o","v","e","r","a","g","e">>

LblRoomCharges == <<"R","o","o","m"," ","C","h","a","r","g","e","s">>

LblLabCharges == <<"L","a","b"," ","C","h","a","r","g","e","s">>

LblTotalHospital == <<"T","o","t","a","l"," ","H","o","s","p","i","t","a","l">>

LblPFDrSantos == <<"P","F"," ","-"," ","D","r","."," ","S","a","n","t","o","s">>

LblTotalPF == <<"T","o","t","a","l"," ","P","F">>

LblRoom5thFloorPrivate == <<"R","o","o","m",":"," ","5","t","h"," ","F","l","o","o","r"," ","P","r","i","v","a","t","e">>

LblOperatingRoom == <<"O","p","e","r","a","t","i","n","g"," ","R","o","o","m">>

LblAnesthesia == <<"A","n","e","s","t","h","e","s","i","a">>

LblHospitalCharges == <<"H","o","s","p","i","t","a","l"," ","C","h","a","r","g","e","s">>

LblSurgeonFee == <<"S","u","r","g","e","o","n"," ","F","e","e">>

LblAnesthesiologistFee == <<"A","n","e","s","t","h","e","s","i","o","l","o","g","i","s","t"," ","F","e","e">>

LblHospitalChargesSubtotal == <<"H","o","s","p","i","t","a","l"," ","C","h","a","r","g","e","s"," ","S","u","b","t","o","t","a","l">>

LblWardChargesTotal == <<"W","a","r","d"," ","C","h","a","r","g","e","s"," ","T","o","t","a","l">>

LblRoomAndBoard == <<"R","o","o","m"," ","a","n","d"," ","B","o","a","r","d">>

LblSubtotalAmountDue == <<"S","u","b","t","o","t","a","l"," ","A","m","o","u","n","t"," ","D","u","e">>

\* labels the bounded bills are built from: two grand-total labels, a section total,
\* a category subtotal, the bare "Total" and a line item
Labels ==
    {LblGrandTotal, LblBalanceDue, LblTotalHospitalCharges,
     <<"L","a","b","o","r","a","t","o","r","y"," ","T","o","t","a","l">>,
     LblTotal, LblLaboratory}

\* the other labels of TEST_CASES TC002, TC003, TC004 and TC006
HierarchyTestLabels ==
    {LblAmountDue, LblTotalAmountDue, LblGrossTotal, LblERSubtotal, LblWardCharges,
     LblWardSubtotal, LblMedications, LblDoctorFee, LblHospitalServices,
     LblProfessionalFees, LblLessSeniorDiscount, LblLessHMOCoverage, LblRoomCharges,
     LblLabCharges, LblTotalHospital, LblPFDrSantos, LblTotalPF, LblRoom5thFloorPrivate,
     LblOperatingRoom, LblAnesthesia, LblHospitalCharges, LblSurgeonFee,
     LblAnesthesiologistFee}

\* the other labels of testKeywordClassification, and labels at the edges of the
\* rules of classifyTotal: a grand-total keyword next to a section keyword, "Total:",
\* a padded upper-case "TOTAL", a label that only contains "total", the empty label
\* and a one-character label
KeywordTestLabels ==
    {LblHospitalChargesSubtotal, LblWardChargesTotal, LblRoomAndBoard,
     LblSubtotalAmountDue,
     <<"T","o","t","a","l",":">>,
     <<" "," ","T","O","T","A","L"," ">>,
     <<"T","o","t","a","l","s">>,
     <<>>,
     <<"T">>}

AllLabels == Labels \cup {LblTotalProfessionalFees, LblEmergencyRoom, LblXRay}
        \cup HierarchyTestLabels \cup KeywordTestLabels

\* the keyword tests of classifyTotal and scoreGrandTotalCandidate on a lower-cased
\* label, computed once per label
KeywordHits(s) ==
    [grand        |-> IncludesAny(s, GRAND_TOTAL_KEYWORDS),
     section      |-> IncludesAny(s, SECTION_TOTAL_KEYWORDS),
     intermediate |-> \E n \in DOMAIN INTERMEDIATE_TOTAL_INDICATORS :
                          /\ Includes(s, INTERMEDIATE_TOTAL_INDICATORS[n])
                          /\ Includes(s, StrTotal)]

KeywordMemo ==
    [s \in {ToLowerCase(l) : l \in AllLabels} \cup {Trim(ToLowerCase(l)) : l \in AllLabels}
        |-> KeywordHits(s)]

----------------------------------------------------------------------------
(* Tolerances of the hierarchy builder, in centavos *)

\* "Within P10"
SECTION_SUM_TIGHT == 1000

\* "within P100"
SECTION_SUM_LOOSE == 10000

\* confidence given to a last-resort grand total
LAST_RESORT_CONFIDENCE == 60

----------------------------------------------------------------------------
(* Total classification and scoring *)

\* the largest amount of a non-empty list: [...allTotals].sort(desc)[0].amount
MaxAmount(allTotals) == MaxOf({allTotals[i].amount : i \in DOMAIN allTotals})

\* the largest position of a non-empty list
MaxPosition(allTotals) == MaxOf({allTotals[i].position : i \in DOMAIN allTotals})

\* classifyTotal that looks for a SECTION_TOTAL keyword before a GRAND_TOTAL keyword
classifyTotal_SectionKeywordFirst(label, amount, allTotals) ==
    LET lowerLabel == Trim(ToLowerCase(label))
    IN  IF KeywordMemo[lowerLabel].section THEN "section_total"
        ELSE IF KeywordMemo[lowerLabel].grand THEN "grand_total"
        ELSE IF KeywordMemo[lowerLabel].intermediate THEN "category_subtotal"
        ELSE IF lowerLabel = StrTotal \/ lowerLabel = StrTotalColon
             THEN IF Len(allTotals) > 0 /\ amount = MaxAmount(allTotals)
                  THEN "grand_total"
                  ELSE "section_total"
        ELSE "line_item"

classifyTotal(label, amount, allTotals) ==
    LET lowerLabel == Trim(ToLowerCase(label))
    IN  IF KeywordMemo[lowerLabel].grand THEN "grand_total"
        ELSE IF KeywordMemo[lowerLabel].section THEN "section_total"
        ELSE IF KeywordMemo[lowerLabel].intermediate THEN "category_subtotal"
        ELSE IF lowerLabel = StrTotal \/ lowerLabel = StrTotalColon
             THEN IF Len(allTotals) > 0 /\ amount = MaxAmount(allTotals)
                  THEN "grand_total"
                  ELSE "section_total"
        ELSE "line_item"

\* scoreGrandTotalCandidate that adds the P100 bonus on top of the P10 bonus
scoreGrandTotalCandidate_StackedBonus(total, allTotals, sectionTotals) ==
    LET lowerLabel == ToLowerCase(total.label)
        sectionSum == SumAmounts(sectionTotals)
        diff       == Abs(total.amount - sectionSum)
    IN    (IF KeywordMemo[lowerLabel].grand THEN 100 ELSE 0)
        - (IF KeywordMemo[lowerLabel].section THEN 50 ELSE 0)
        + (IF Len(allTotals) > 0 /\ MaxAmount(allTotals) = total.amount THEN 30 ELSE 0)
        + (IF Len(allTotals) > 0 /\ MaxPosition(allTotals) = total.position THEN 20 ELSE 0)
        + (IF Len(sectionTotals) >= 2 /\ diff < SECTION_SUM_TIGHT THEN 50 ELSE 0)
        + (IF Len(sectionTotals) >= 2 /\ diff < SECTION_SUM_LOOSE THEN 25 ELSE 0)
        - (IF Len(allTotals) > 1 /\ 2 * total.amount < MaxAmount(allTotals) THEN 40 ELSE 0)

scoreGrandTotalCandidate(total, allTotals, sectionTotals) ==
    LET lowerLabel == ToLowerCase(total.label)
        sectionSum == SumAmounts(sectionTotals)
        diff       == Abs(total.amount - sectionSum)
    IN    (IF KeywordMemo[lowerLabel].grand THEN 100 ELSE 0)
        - (IF KeywordMemo[lowerLabel].section THEN 50 ELSE 0)
        + (IF Len(allTotals) > 0 /\ MaxAmount(allTotals) = total.amount THEN 30 ELSE 0)
        + (IF Len(allTotals) > 0 /\ MaxPosition(allTotals) = total.position THEN 20 ELSE 0)
        + (IF Len(sectionTotals) >= 2
           THEN IF diff < SECTION_SUM_TIGHT THEN 50
                ELSE IF diff < SECTION_SUM_LOOSE THEN 25 ELSE 0
           ELSE 0)
        - (IF Len(allTotals) > 1 /\ 2 * total.amount < MaxAmount(allTotals) THEN 40 ELSE 0)

\* selectBestGrandTotal that returns the last of the candidates with the best score
selectBestGrandTotal_LastOfBest(candidates, allTotals, sectionTotals) ==
    IF Len(candidates) = 0 THEN <<>>
    ELSE IF Len(candidates) = 1 THEN <<candidates[1]>>
    ELSE LET score(i) == scoreGrandTotalCandidate(candidates[i], allTotals, sectionTotals)
             best == MaxOf({score(i) : i \in DOMAIN candidates})
             last == MaxOf({i \in DOMAIN candidates : score(i) = best})
         IN  <<candidates[last]>>

\* null is <<>>; scored.sort is stable, so the first candidate with the best score wins
selectBestGrandTotal(candidates, allTotals, sectionTotals) ==
    IF Len(candidates) = 0 THEN <<>>
    ELSE IF Len(candidates) = 1 THEN <<candidates[1]>>
    ELSE LET score(i) == scoreGrandTotalCandidate(candidates[i], allTotals, sectionTotals)
             best == MaxOf({score(i) : i \in DOMAIN candidates})
             first == MinOf({i \in DOMAIN candidates : score(i) = best})
         IN  <<candidates[first]>>

----------------------------------------------------------------------------
(* Total hierarchy builder *)

\* first pass: total.level = classifyTotal(total.label, total.amount, extractedTotals)
ClassifyAll(totals) ==
    [i \in DOMAIN totals |->
        [totals[i] EXCEPT !.level = classifyTotal(totals[i].label, totals[i].amount, totals)]]

OfLevel(totals, level) == SelectSeq(totals, LAMBDA t : t.level = level)

\* a verification note: which message it is and what the message names
Note(kind, label, amount, count) ==
    [kind |-> kind, label |-> label, amount |-> amount, count |-> count]

\* SumInfersGrandTotal that accepts a difference of exactly P100
SumInfersGrandTotal_Inclusive(largest, sectionTotals) ==
    /\ Len(sectionTotals) >= 2
    /\ Abs(largest.amount - SumAmounts(sectionTotals)) <= SECTION_SUM_LOOSE

\* sectionTotals.length >= 2 && Math.abs(largest.amount - sectionSum) < 100
SumInfersGrandTotal(largest, sectionTotals) ==
    /\ Len(sectionTotals) >= 2
    /\ Abs(largest.amount - SumAmounts(sectionTotals)) < SECTION_SUM_LOOSE

\* the fallback when no candidate was classified grand_total: <<grandTotal, notes>>
InferGrandTotal(totals, sectionTotals) ==
    LET largest ==   \* the first of the largest: [...extractedTotals].sort(desc)[0]
            totals[MinOf({i \in DOMAIN totals : totals[i].amount = MaxAmount(totals)})]
    IN  IF SumInfersGrandTotal(largest, sectionTotals)
        THEN << <<[largest EXCEPT !.level = "grand_total"]>>,
                <<Note("inferred", <<>>, largest.amount, Len(sectionTotals))>> >>
        ELSE << <<[largest EXCEPT !.level = "grand_total",
                                  !.confidence = LAST_RESORT_CONFIDENCE]>>,
                <<Note("largest_amount_used", <<>>, largest.amount, 0)>> >>

\* StatusFromCandidates that takes any number of candidates for a confirmation
StatusFromCandidates_AnyCandidateVerifies(nCandidates) ==
    IF nCandidates >= 1 THEN "verified" ELSE "likely_correct"

\* the status given by the number of candidates classified grand_total
StatusFromCandidates(nCandidates) ==
    IF nCandidates = 1 THEN "verified"
    ELSE IF nCandidates > 1 THEN "uncertain"
    ELSE "likely_correct"

\* StatusAfterCrossCheck that also lowers the status on a large difference
StatusAfterCrossCheck_DowngradesOnMismatch(status, diff) ==
    IF diff < SECTION_SUM_TIGHT THEN "verified"
    ELSE IF diff > SECTION_SUM_LOOSE THEN "uncertain"
    ELSE status

\* the status after the comparison with the sum of the section totals
StatusAfterCrossCheck(status, diff) ==
    IF diff < SECTION_SUM_TIGHT THEN "verified" ELSE status

\* status and notes given a resolved grand total: <<status, notes>>
VerifyGrandTotal(grandTotal, nCandidates, sectionTotals, notes) ==
    LET status == StatusFromCandidates(nCandidates)
        first ==
            IF nCandidates = 1
            THEN Append(notes, Note("single_grand_total", grandTotal.label,
                                    grandTotal.amount, 1))
            ELSE IF nCandidates > 1
            THEN Append(notes, Note("multiple_candidates", grandTotal.label,
                                    grandTotal.amount, nCandidates))
            ELSE notes
        sectionSum == SumAmounts(sectionTotals)
        diff       == Abs(grandTotal.amount - sectionSum)
    IN  IF Len(sectionTotals) >= 2
        THEN <<StatusAfterCrossCheck(status, diff),
               IF diff < SECTION_SUM_TIGHT
               THEN Append(first, Note("section_sum_verified", <<>>, sectionSum,
                                       Len(sectionTotals)))
               ELSE IF diff > SECTION_SUM_LOOSE
               THEN Append(first, Note("section_sum_differs", <<>>, diff,
                                       Len(sectionTotals)))
               ELSE first>>
        ELSE <<status, first>>

buildTotalHierarchy(totals) ==
    LET classified        == ClassifyAll(totals)
        lineItems         == OfLevel(classified, "line_item")
        categorySubtotals == OfLevel(classified, "category_subtotal")
        sectionTotals     == OfLevel(classified, "section_total")
        candidates        == OfLevel(classified, "grand_total")
        selected          == selectBestGrandTotal(candidates, classified, sectionTotals)
        inferred          == IF selected = <<>> /\ Len(classified) > 0
                             THEN InferGrandTotal(classified, sectionTotals)
                             ELSE <<selected, <<>> >>
        grandTotal        == inferred[1]
        verified          == IF grandTotal # <<>>
                             THEN VerifyGrandTotal(grandTotal[1], Len(candidates),
                                                   sectionTotals, inferred[2])
                             ELSE <<"failed", inferred[2]>>
    IN  [lineItems          |-> lineItems,
         categorySubtotals  |-> categorySubtotals,
         sectionTotals      |-> sectionTotals,
         grandTotal         |-> grandTotal,
         allTotals          |-> classified,
         verificationStatus |-> verified[1],
         verificationNotes  |-> verified[2]]

----------------------------------------------------------------------------
(* Discrepancy calculation *)

\* the rounding tolerance of P1.00, in centavos
ROUNDING_TOLERANCE == 100

\* the large-discrepancy threshold, in percent
LARGE_DISCREPANCY_PERCENT == 20

\* DiscrepancyPercent without the test on billGrandTotal (a division by zero is
\* Infinity, larger than every threshold)
DiscrepancyPercent_Unguarded(disc, billGrandTotal) ==
    [num |-> disc * 100, den |-> billGrandTotal]

\* discrepancy / billGrandTotal * 100 as an exact fraction; 0 when billGrandTotal is not > 0
DiscrepancyPercent(disc, billGrandTotal) ==
    IF billGrandTotal > 0
    THEN [num |-> disc * 100, den |-> billGrandTotal]
    ELSE [num |-> 0, den |-> 1]

\* DiscrepancyVerdict with the tolerance test of the Rounding Check (< instead of <=)
DiscrepancyVerdict_StrictTolerance(calculatedTotal, billGrandTotal, grandTotalCheckPassed) ==
    LET disc == Abs(calculatedTotal - billGrandTotal)
    IN  IF ~grandTotalCheckPassed
        THEN [status |-> "unable_to_verify", affectedParty |-> "none",
              shouldFlag |-> TRUE, explanation |-> <<"could_not_verify">>]
        ELSE IF disc < ROUNDING_TOLERANCE
        THEN [status |-> "no_discrepancy", affectedParty |-> "none",
              shouldFlag |-> FALSE, explanation |-> <<"correct">>]
        ELSE IF calculatedTotal > billGrandTotal
        THEN [status |-> "undercharge", affectedParty |-> "hospital",
              shouldFlag |-> TRUE, explanation |-> <<"hospital_missed_charges">>]
        ELSE [status |-> "overcharge", affectedParty |-> "patient",
              shouldFlag |-> TRUE, explanation |-> <<"patient_overcharged">>]

\* DiscrepancyVerdict comparing the signed difference with the tolerance (Math.abs dropped)
DiscrepancyVerdict_SignedDifference(calculatedTotal, billGrandTotal, grandTotalCheckPassed) ==
    LET disc == calculatedTotal - billGrandTotal
    IN  IF ~grandTotalCheckPassed
        THEN [status |-> "unable_to_verify", affectedParty |-> "none",
              shouldFlag |-> TRUE, explanation |-> <<"could_not_verify">>]
        ELSE IF disc <= ROUNDING_TOLERANCE
        THEN [status |-> "no_discrepancy", affectedParty |-> "none",
              shouldFlag |-> FALSE, explanation |-> <<"correct">>]
        ELSE IF calculatedTotal > billGrandTotal
        THEN [status |-> "undercharge", affectedParty |-> "hospital",
              shouldFlag |-> TRUE, explanation |-> <<"hospital_missed_charges">>]
        ELSE [status |-> "overcharge", affectedParty |-> "patient",
              shouldFlag |-> TRUE, explanation |-> <<"patient_overcharged">>]

\* DiscrepancyVerdict that compares the totals whatever the hierarchy check said
DiscrepancyVerdict_IgnoresHierarchyCheck(calculatedTotal, billGrandTotal, grandTotalCheckPassed) ==
    LET disc == Abs(calculatedTotal - billGrandTotal)
    IN  IF disc <= ROUNDING_TOLERANCE
        THEN [status |-> "no_discrepancy", affectedParty |-> "none",
              shouldFlag |-> FALSE, explanation |-> <<"correct">>]
        ELSE IF calculatedTotal > billGrandTotal
        THEN [status |-> "undercharge", affectedParty |-> "hospital",
              shouldFlag |-> TRUE, explanation |-> <<"hospital_missed_charges">>]
        ELSE [status |-> "overcharge", affectedParty |-> "patient",
              shouldFlag |-> TRUE, explanation |-> <<"patient_overcharged">>]

\* status, affectedParty, shouldFlag and explanation: the if / else-if chain
DiscrepancyVerdict(calculatedTotal, billGrandTotal, grandTotalCheckPassed) ==
    LET disc == Abs(calculatedTotal - billGrandTotal)
    IN  IF ~grandTotalCheckPassed
        THEN [status |-> "unable_to_verify", affectedParty |-> "none",
              shouldFlag |-> TRUE, explanation |-> <<"could_not_verify">>]
        ELSE IF disc <= ROUNDING_TOLERANCE
        THEN [status |-> "no_discrepancy", affectedParty |-> "none",
              shouldFlag |-> FALSE, explanation |-> <<"correct">>]
        ELSE IF calculatedTotal > billGrandTotal
        THEN [status |-> "undercharge", affectedParty |-> "hospital",
              shouldFlag |-> TRUE, explanation |-> <<"hospital_missed_charges">>]
        ELSE [status |-> "overcharge", affectedParty |-> "patient",
              shouldFlag |-> TRUE, explanation |-> <<"patient_overcharged">>]

calculateDiscrepancy(calculatedTotal, billGrandTotal, h) ==
    LET grandTotalCheck ==
            [name   |-> "Grand Total Verification",
             passed |-> h.verificationStatus = "verified"
                        \/ h.verificationStatus = "likely_correct"]
        lineItemsCheck ==
            [name |-> "Line Items Completeness", passed |-> calculatedTotal > 0]
        disc    == Abs(calculatedTotal - billGrandTotal)
        percent == DiscrepancyPercent(disc, billGrandTotal)
        roundingCheck ==
            [name |-> "Rounding Check", passed |-> disc < ROUNDING_TOLERANCE]
        verdict == DiscrepancyVerdict(calculatedTotal, billGrandTotal,
                                      grandTotalCheck.passed)
        large   == /\ percent.num > LARGE_DISCREPANCY_PERCENT * percent.den
                   /\ verdict.status # "no_discrepancy"
                   /\ verdict.status # "unable_to_verify"
    IN  [calculatedTotal    |-> calculatedTotal,
         billGrandTotal     |-> billGrandTotal,
         discrepancy        |-> disc,
         discrepancyPercent |-> percent,
         status             |-> verdict.status,
         affectedParty      |-> verdict.affectedParty,
         shouldFlag         |-> verdict.shouldFlag,
         explanation        |-> IF large THEN Append(verdict.explanation, "critical")
                                ELSE verdict.explanation,
         verificationChecks |->
             <<grandTotalCheck, lineItemsCheck, roundingCheck>>
             \o (IF large
                 THEN <<[name |-> "Large Discrepancy Alert", passed |-> FALSE]>>
                 ELSE <<>>)]

----------------------------------------------------------------------------
(* Deduction validation *)

\* a breakdown item as extractBillFinancials builds it from the extracted JSON;
\* an undefined verificationIssue is ""
DeductionItem(type, amount, hasDocumentation) ==
    [type |-> type, amount |-> amount, description |-> "from_bill",
     hasDocumentation |-> hasDocumentation, isVerified |-> hasDocumentation,
     verificationIssue |-> IF hasDocumentation THEN "" ELSE "No documentation found"]

\* the item validateDeductions creates for an aggregate field
SyntheticItem(type, amount, description, issue) ==
    [type |-> type, amount |-> amount, description |-> description,
     hasDocumentation |-> FALSE, isVerified |-> FALSE, verificationIssue |-> issue]

\* discounts + payments + hmoCoverage + philhealthCoverage
AggregateDeductions(f) == f.discounts + f.payments + f.hmoCoverage + f.philhealthCoverage

\* SyntheticItems without an item for the payments field
SyntheticItems_NoPaymentItem(f) ==
    IF AggregateDeductions(f) > 0
    THEN (IF f.discounts > 0
          THEN <<SyntheticItem("discount", f.discounts, "Discounts (unspecified)",
                    "No breakdown provided - could be SC, PWD, or other discount")>>
          ELSE <<>>)
      \o (IF f.hmoCoverage > 0
          THEN <<SyntheticItem("hmo", f.hmoCoverage, "HMO/Company Coverage (unverified)",
                    "No policy number or LOA visible - coverage not confirmed")>>
          ELSE <<>>)
      \o (IF f.philhealthCoverage > 0
          THEN <<SyntheticItem("philhealth", f.philhealthCoverage,
                    "PhilHealth Coverage (unverified)",
                    "No member ID or claim number visible")>>
          ELSE <<>>)
    ELSE <<>>

\* the items pushed when the breakdown is empty, in the order of the four if blocks
SyntheticItems(f) ==
    IF AggregateDeductions(f) > 0
    THEN (IF f.discounts > 0
          THEN <<SyntheticItem("discount", f.discounts, "Discounts (unspecified)",
                    "No breakdown provided - could be SC, PWD, or other discount")>>
          ELSE <<>>)
      \o (IF f.payments > 0
          THEN <<SyntheticItem("payment", f.payments, "Payments/Deposits (unspecified)",
                    "No receipt or reference number visible")>>
          ELSE <<>>)
      \o (IF f.hmoCoverage > 0
          THEN <<SyntheticItem("hmo", f.hmoCoverage, "HMO/Company Coverage (unverified)",
                    "No policy number or LOA visible - coverage not confirmed")>>
          ELSE <<>>)
      \o (IF f.philhealthCoverage > 0
          THEN <<SyntheticItem("philhealth", f.philhealthCoverage,
                    "PhilHealth Coverage (unverified)",
                    "No member ID or claim number visible")>>
          ELSE <<>>)
    ELSE <<>>

\* the issues pushed along with the synthetic items
SyntheticIssues(f) ==
    IF AggregateDeductions(f) > 0
    THEN (IF f.discounts > 0 THEN <<"discount_without_breakdown">> ELSE <<>>)
      \o (IF f.payments > 0 THEN <<"payment_without_receipt">> ELSE <<>>)
      \o (IF f.hmoCoverage > 0 THEN <<"hmo_not_verified">> ELSE <<>>)
      \o (IF f.philhealthCoverage > 0 THEN <<"philhealth_not_verified">> ELSE <<>>)
    ELSE <<>>

\* item.isVerified || item.hasDocumentation
CountsAsVerified(item) == item.isVerified \/ item.hasDocumentation

\* the loop over deductionItems: the amounts added to verifiedAmount / unverifiedAmount
RECURSIVE VerifiedAmount(_)
VerifiedAmount(items) ==
    IF items = <<>> THEN 0
    ELSE (IF CountsAsVerified(items[1]) THEN items[1].amount ELSE 0)
         + VerifiedAmount(Tail(items))

RECURSIVE UnverifiedAmount(_)
UnverifiedAmount(items) ==
    IF items = <<>> THEN 0
    ELSE (IF CountsAsVerified(items[1]) THEN 0 ELSE items[1].amount)
         + UnverifiedAmount(Tail(items))

\* the same loop: an unverified item without verificationIssue gets one
WithVerificationIssues(items) ==
    [i \in DOMAIN items |->
        IF ~CountsAsVerified(items[i]) /\ items[i].verificationIssue = ""
        THEN [items[i] EXCEPT !.verificationIssue = "Documentation not found"]
        ELSE items[i]]

IsCoverageItem(d) == d.type = "hmo" \/ d.type = "philhealth" \/ d.type = "insurance"

\* CoverageStatus that takes one verified coverage item for a confirmation
CoverageStatus_AnyVerifiedConfirms(f, items) ==
    LET coverageItems    == SelectSeq(items, IsCoverageItem)
        verifiedCoverage == SelectSeq(coverageItems, LAMBDA d : d.isVerified)
    IN  IF ~(f.hmoCoverage > 0 \/ f.philhealthCoverage > 0) THEN "no_coverage"
        ELSE IF Len(verifiedCoverage) > 0 THEN "confirmed"
        ELSE IF Len(coverageItems) > 0 THEN "unconfirmed"
        ELSE "unknown"

CoverageStatus(f, items) ==
    LET coverageItems    == SelectSeq(items, IsCoverageItem)
        verifiedCoverage == SelectSeq(coverageItems, LAMBDA d : d.isVerified)
    IN  IF ~(f.hmoCoverage > 0 \/ f.philhealthCoverage > 0) THEN "no_coverage"
        ELSE IF Len(verifiedCoverage) = Len(coverageItems) /\ Len(coverageItems) > 0
        THEN "confirmed"
        ELSE IF Len(coverageItems) > 0 THEN "unconfirmed"
        ELSE "unknown"

\* ValidationPassed consulting only the issues list
ValidationPassed_IssuesOnly(issues, unverifiedAmount) == Len(issues) = 0

\* issues.length === 0 && unverifiedAmount === 0
ValidationPassed(issues, unverifiedAmount) == Len(issues) = 0 /\ unverifiedAmount = 0

\* validateDeductions: the DeductionValidation returned and the financials argument as
\* the call leaves it (deductionItems is the deductionBreakdown array itself, so the
\* pushes and the verificationIssue assignments land in financials)
validateDeductions(f) ==
    LET given == f.deductionBreakdown
        synthesize == Len(given) = 0
        pushed == IF synthesize THEN given \o SyntheticItems(f) ELSE given
        issues1 == IF synthesize THEN SyntheticIssues(f) ELSE <<>>
        verifiedAmount   == VerifiedAmount(pushed)
        unverifiedAmount == UnverifiedAmount(pushed)
        deductionItems   == WithVerificationIssues(pushed)
        coverageStatus   == CoverageStatus(f, deductionItems)
        issues2 == IF coverageStatus = "unconfirmed"
                   THEN Append(issues1, "coverage_not_verified") ELSE issues1
        issues  == IF /\ AggregateDeductions(f) > 0
                      /\ \A i \in DOMAIN deductionItems : ~deductionItems[i].hasDocumentation
                   THEN Append(issues2, "all_deductions_unverified") ELSE issues2
    IN  [validation |->
            [totalDeductions      |-> verifiedAmount + unverifiedAmount,
             verifiedDeductions   |-> verifiedAmount,
             unverifiedDeductions |-> unverifiedAmount,
             deductionItems       |-> deductionItems,
             coverageStatus       |-> coverageStatus,
             validationPassed     |-> ValidationPassed(issues, unverifiedAmount),
             issues               |-> issues],
         financials |-> [f EXCEPT !.deductionBreakdown = deductionItems]]

\* the requests whose extractions may overlap in one server process
Requests == {1, 2}

\* logs.push(log) for each phase in turn
RECURSIVE logExtraction(_, _, _)
logExtraction(log, request, phases) ==
    IF phases = <<>> THEN log
    ELSE logExtraction(Append(log, [request |-> request, phase |-> phases[1]]), request, Tail(phases))

\* logs.length = 0
clearExtractionLogs(log) == <<>>

\* what extractBillFinancials logs before it awaits the vision call
PhasesBeforeAwait == <<"INIT", "PROMPT">>

\* what it logs once the vision call returned an answer that parses
PhasesOnAnswer ==
    { <<"AI_RESPONSE", "RESULT">>,
      <<"AI_RESPONSE", "HIERARCHY", "RESULT">>,
      <<"AI_RESPONSE", "HIERARCHY", "CORRECTION", "RESULT">>,
      <<"AI_RESPONSE", "GRAND_TOTAL", "RESULT">>,
      <<"AI_RESPONSE", "RESULT", "DUPLICATES">>,
      <<"AI_RESPONSE", "RESULT", "MISMATCH">> }

\* no extraction has started
NoExtraction ==
    /\ logs = <<>>
    /\ extraction = [r \in Requests |-> [pc |-> "idle", recorded |-> <<>>]]

\* a whole extractBillFinancials of one request, with nothing running beside it
ExtractionLogged(request, phases) ==
    /\ logs' = logExtraction(clearExtractionLogs(logs), request, PhasesBeforeAwait \o phases)
    /\ extraction' = [extraction EXCEPT ![request] =
                          [pc |-> "done", recorded |-> PhasesBeforeAwait \o phases]]

\* no analysis request is in progress
NoRequest ==
    /\ pc = "idle"
    /\ billText = <<>>
    /\ extractionFailed = FALSE
    /\ response = <<>>

\* no direct call of classifyTotal or scoreGrandTotalCandidate was made
NoKeywordCall ==
    /\ classification = <<>>
    /\ scored = <<>>
    /\ selection = <<>>

\* validateDeductions was not called on its own
NoDeductionCall ==
    /\ validatedFinancials = <<>>
    /\ revalidation = <<>>

----------------------------------------------------------------------------
(* Inputs of the hierarchy builder *)

\* an extracted total as the extraction hands it over: not yet classified
ExtractedTotal(label, amount, position) ==
    [label |-> label, amount |-> amount, level |-> "line_item",
     confidence |-> 90, position |-> position]

\* TEST_CASES TC005, "Single Section Bill"
BillTC005 ==
    << ExtractedTotal(LblEmergencyRoom, 1000000, 1),
       ExtractedTotal(LblLaboratory, 500000, 2),
       ExtractedTotal(LblXRay, 300000, 3),
       ExtractedTotal(LblTotalHospitalCharges, 1800000, 4) >>

\* a bill from its <<label, amount>> lines, in document order
BillOf(ls) == [i \in DOMAIN ls |-> ExtractedTotal(ls[i][1], ls[i][2], i)]

\* TEST_CASES TC002, "Multiple Subtotals"
BillTC002 ==
    BillOf(<< <<LblEmergencyRoom, 1500000>>, <<LblERSubtotal, 1500000>>,
              <<LblWardCharges, 1000000>>, <<LblWardSubtotal, 1000000>>,
              <<LblMedications, 800000>>, <<LblTotalHospitalCharges, 3300000>>,
              <<LblDoctorFee, 700000>>, <<LblTotalProfessionalFees, 700000>>,
              <<LblAmountDue, 4000000>> >>)

\* TEST_CASES TC003, "Bill with Payments Applied"
BillTC003 ==
    BillOf(<< <<LblHospitalServices, 5000000>>, <<LblTotalHospitalCharges, 5000000>>,
              <<LblProfessionalFees, 1000000>>, <<LblGrossTotal, 6000000>>,
              <<LblLessSeniorDiscount, 600000>>, <<LblLessHMOCoverage, 2000000>>,
              <<LblBalanceDue, 3400000>> >>)

\* TEST_CASES TC004, "Implicit Grand Total"
BillTC004 ==
    BillOf(<< <<LblRoomCharges, 1200000>>, <<LblLabCharges, 800000>>,
              <<LblTotalHospital, 2000000>>, <<LblPFDrSantos, 500000>>,
              <<LblTotalPF, 500000>>, <<LblTotal, 2500000>> >>)

\* TEST_CASES TC006, "Misleading Intermediate Total"
BillTC006 ==
    BillOf(<< <<LblRoom5thFloorPrivate, 1500000>>, <<LblOperatingRoom, 2500000>>,
              <<LblAnesthesia, 1000000>>, <<LblHospitalCharges, 5000000>>,
              <<LblSurgeonFee, 3000000>>, <<LblAnesthesiologistFee, 1500000>>,
              <<LblProfessionalFees, 4500000>>, <<LblTotalAmountDue, 9500000>> >>)

TestBills == {BillTC002, BillTC003, BillTC004, BillTC005, BillTC006}

\* the bill of TC004 with section labels the keyword list knows
BillImplicitTotal ==
    BillOf(<< <<LblTotalHospitalCharges, 2000000>>, <<LblTotalProfessionalFees, 500000>>,
              <<LblTotal, 2500000>> >>)

\* amounts at, just inside and just outside P10 and P100 from a section sum of
\* P25,000.00
CrossCheckAmounts == {2500000, 2500999, 2501000, 2509999, 2510000, 2510001}

\* two section totals summing to P25,000.00 next to a largest total close to that sum:
\* an unlabelled one (fallback), a single explicit grand total, and an explicit grand
\* total followed by a balance due (two candidates)
CrossCheckBills ==
    UNION {{ BillOf(<< <<LblTotalHospitalCharges, 2000000>>,
                       <<LblTotalProfessionalFees, 500000>>, <<LblLaboratory, g>> >>),
             BillOf(<< <<LblTotalHospitalCharges, 2000000>>,
                       <<LblTotalProfessionalFees, 500000>>, <<LblGrandTotal, g>> >>),
             BillOf(<< <<LblTotalHospitalCharges, 2000000>>,
                       <<LblTotalProfessionalFees, 500000>>, <<LblGrandTotal, g>>,
                       <<LblBalanceDue, 2000000>> >>) } : g \in CrossCheckAmounts}

\* the bills handed to buildTotalHierarchy: every list of at most MaxTotals totals
\* with a label of Labels and an amount in centavos, and the bills of the tests
TotalLists ==
    {BillOf(ls) : ls \in SeqsUpTo(Labels \X {500000, 2000000, 2500000}, MaxTotals)}
        \cup TestBills \cup {BillImplicitTotal} \cup CrossCheckBills

----------------------------------------------------------------------------
(* Specification of the hierarchy builder *)

InitHierarchy ==
    /\ extractedTotals \in TotalLists
    /\ hierarchy = <<>>
    /\ discrepancy = <<>>
    /\ financials = <<>>
    /\ deductionValidation = <<>>
    /\ NoRequest
    /\ NoKeywordCall
    /\ NoDeductionCall
    /\ NoExtraction

\* const hierarchy = buildTotalHierarchy(totals)
BuildTotalHierarchy ==
    /\ hierarchy = <<>>
    /\ hierarchy' = <<buildTotalHierarchy(extractedTotals)>>
    /\ extractedTotals' = hierarchy'[1].allTotals
    /\ UNCHANGED <<logVars, keywordVars, deductionCallVars, discrepancy, deductionVars, requestVars>>

NextHierarchy == BuildTotalHierarchy

SpecHierarchy == InitHierarchy /\ [][NextHierarchy]_vars

----------------------------------------------------------------------------
(* Specification of the discrepancy calculation: a hierarchy of each verification *)
(* status is built, then compared with a calculated line-items total              *)

\* one bill per verification status (failed, verified, uncertain, likely_correct), the
\* bills of TEST_CASES and the bills around the section-sum tolerances
StatusBills ==
    { <<>>,
      <<ExtractedTotal(LblGrandTotal, 2500000, 1)>>,
      <<ExtractedTotal(LblGrandTotal, 2500000, 1), ExtractedTotal(LblBalanceDue, 2000000, 2)>>,
      <<ExtractedTotal(LblLaboratory, 500000, 1)>> }
        \cup TestBills \cup {BillImplicitTotal} \cup CrossCheckBills

\* calculated and stated totals, in centavos: equal, 0.50, exactly 1.00 and 1.01 apart,
\* more than 20% apart, and zero
DiscrepancyAmounts ==
    {0, 1500000, 2004400, 2500000, 2504300, 2504400, 2504450, 2504500, 2504501}

InitDiscrepancy ==
    /\ extractedTotals \in StatusBills
    /\ hierarchy = <<>>
    /\ discrepancy = <<>>
    /\ financials = <<>>
    /\ deductionValidation = <<>>
    /\ NoRequest
    /\ NoKeywordCall
    /\ NoDeductionCall
    /\ NoExtraction

\* const result = calculateDiscrepancy(calculatedTotal, billGrandTotal, hierarchy)
CalculateDiscrepancy ==
    /\ hierarchy # <<>>
    /\ discrepancy = <<>>
    /\ \E calculatedTotal \in DiscrepancyAmounts, billGrandTotal \in DiscrepancyAmounts :
          discrepancy' = <<calculateDiscrepancy(calculatedTotal, billGrandTotal, hierarchy[1])>>
    /\ UNCHANGED <<logVars, keywordVars, deductionCallVars, extractedTotals, hierarchy, deductionVars, requestVars>>

NextDiscrepancy == BuildTotalHierarchy \/ CalculateDiscrepancy

SpecDiscrepancy == InitDiscrepancy /\ [][NextDiscrepancy]_vars

\* C14 (as stated): when no total is classified grand_total and fewer than 2 section
\* totals exist (the empty input included), buildTotalHierarchy returns grandTotal
\* null with status failed, and calculateDiscrepancy on that hierarchy returns
\* unable_to_verify.
C14_NoCandidateFails ==
    hierarchy # <<>> =>
        LET h == hierarchy[1]
            n == Len(SelectSeq(h.allTotals, LAMBDA t : t.level = "grand_total"))
        IN  (n = 0 /\ Len(h.sectionTotals) < 2) =>
              /\ h.grandTotal = <<>>
              /\ h.verificationStatus = "failed"
              /\ discrepancy # <<>> => discrepancy[1].status = "unable_to_verify"

\* C14 (amended): buildTotalHierarchy returns grandTotal null exactly for the empty
\* input, and the status is failed exactly then; for a non-empty input without a
\* total classified grand_total the largest amount is promoted, however many section
\* totals exist; calculateDiscrepancy on a failed hierarchy returns a result with
\* status unable_to_verify, flagged, with no affected party.
C14_UnresolvableHierarchy ==
    hierarchy # <<>> =>
        LET h == hierarchy[1]
            n == Len(SelectSeq(h.allTotals, LAMBDA t : t.level = "grand_total"))
        IN  /\ (h.grandTotal = <<>>) <=> (extractedTotals = <<>>)
            /\ (h.verificationStatus = "failed") <=> (extractedTotals = <<>>)
            /\ (n = 0 /\ extractedTotals # <<>>) =>
                  /\ h.grandTotal # <<>>
                  /\ \A t \in Range(h.allTotals) : t.amount <= h.grandTotal[1].amount
                  /\ h.verificationStatus \in {"likely_correct", "verified"}
            /\ (discrepancy # <<>> /\ h.verificationStatus = "failed") =>
                  /\ discrepancy[1].status = "unable_to_verify"
                  /\ discrepancy[1].affectedParty = "none"
                  /\ discrepancy[1].shouldFlag

\* C14 witness: the empty input, a failed hierarchy, and a result of
\* calculateDiscrepancy for totals that differ
C14_Witness ==
    /\ extractedTotals = <<>>
    /\ hierarchy # <<>>
    /\ hierarchy[1].grandTotal = <<>>
    /\ discrepancy # <<>>
    /\ discrepancy[1].calculatedTotal > discrepancy[1].billGrandTotal + ROUNDING_TOLERANCE
    /\ discrepancy[1].status = "unable_to_verify"

\* C22: calculateDiscrepancy always records, in this order, the checks Grand Total
\* Verification (passed iff the status is verified or likely_correct), Line Items
\* Completeness (passed iff calculatedTotal > 0) and Rounding Check (passed iff
\* |calculatedTotal - billGrandTotal| < 1.00); discrepancyPercent is discrepancy /
\* billGrandTotal * 100, and 0 when billGrandTotal is 0; a fourth, failing check
\* "Large Discrepancy Alert" is appended iff discrepancyPercent > 20 and the status is
\* undercharge or overcharge, and status and affectedParty are what they are without it.
C22_ChecksRecorded ==
    (hierarchy # <<>> /\ discrepancy # <<>>) =>
        LET d        == discrepancy[1]
            checks   == d.verificationChecks
            diff     == Abs(d.calculatedTotal - d.billGrandTotal)
            canCheck == hierarchy[1].verificationStatus \in {"verified", "likely_correct"}
            status   == IF ~canCheck THEN "unable_to_verify"
                        ELSE IF diff <= 100 THEN "no_discrepancy"
                        ELSE IF d.calculatedTotal > d.billGrandTotal THEN "undercharge"
                        ELSE "overcharge"
            large    == /\ d.billGrandTotal > 0
                        /\ diff * 100 > 20 * d.billGrandTotal
                        /\ status \in {"undercharge", "overcharge"}
        IN  /\ Len(checks) = IF large THEN 4 ELSE 3
            /\ checks[1].name = "Grand Total Verification"
            /\ checks[1].passed <=> canCheck
            /\ checks[2].name = "Line Items Completeness"
            /\ checks[2].passed <=> d.calculatedTotal > 0
            /\ checks[3].name = "Rounding Check"
            /\ checks[3].passed <=> diff < 100
            /\ large => (checks[4].name = "Large Discrepancy Alert" /\ ~checks[4].passed)
            /\ d.discrepancy = diff
            /\ d.billGrandTotal = 0 => d.discrepancyPercent.num = 0
            /\ d.billGrandTotal > 0 =>
                  d.discrepancyPercent = [num |-> diff * 100, den |-> d.billGrandTotal]
            /\ d.discrepancyPercent.den > 0
            /\ d.status = status
            /\ d.affectedParty = (IF status = "undercharge" THEN "hospital"
                                  ELSE IF status = "overcharge" THEN "patient"
                                  ELSE "none")

\* C22 witness: a difference of 40% of the bill's total, reported as an overcharge
\* with the alert as fourth check after a failed Rounding Check
C22_Witness ==
    /\ discrepancy # <<>>
    /\ discrepancy[1].calculatedTotal = 1500000
    /\ discrepancy[1].billGrandTotal = 2500000
    /\ discrepancy[1].status = "overcharge"
    /\ discrepancy[1].affectedParty = "patient"
    /\ Len(discrepancy[1].verificationChecks) = 4
    /\ ~discrepancy[1].verificationChecks[3].passed
    /\ discrepancy[1].verificationChecks[4].name = "Large Discrepancy Alert"

\* C26: whenever calculateDiscrepancy returns no_discrepancy (shouldFlag false), every
\* check it recorded has passed: the Rounding Check and the status agree at every
\* difference, a difference of exactly 1.00 included, and at calculatedTotal = 0.
C26_NoDiscrepancyAllChecksPass ==
    (discrepancy # <<>> /\ discrepancy[1].status = "no_discrepancy") =>
        /\ ~discrepancy[1].shouldFlag
        /\ \A i \in DOMAIN discrepancy[1].verificationChecks :
              discrepancy[1].verificationChecks[i].passed

----------------------------------------------------------------------------
(* Specification of the classifier and the scorer called on their own *)

\* the allTotals handed to classifyTotal: none (as the keyword test calls it), a
\* list whose largest amount is 25,000.00 and a list of one smaller amount
ClassifyContexts ==
    {<<>>, BillImplicitTotal, <<ExtractedTotal(LblLaboratory, 500000, 1)>>}

\* section totals ahead of the candidates: none, one, two summing to 25,000.00
ScoreSections ==
    { <<>>,
      << <<LblTotalHospitalCharges, 2500000>> >>,
      << <<LblTotalHospitalCharges, 2000000>>, <<LblTotalProfessionalFees, 500000>> >> }

\* bills with two candidates in either order, with or without a line item after them;
\* the first candidate has a GRAND_TOTAL keyword, a bare "Total", or a GRAND_TOTAL and
\* a SECTION_TOTAL keyword; the second amounts to just under or exactly half of
\* 25,000.00, or to more than twice any first candidate
ScoreBills ==
    UNION {{ BillOf(ss \o << <<l, g>>, <<LblBalanceDue, b>> >>),
             BillOf(ss \o << <<LblBalanceDue, b>>, <<l, g>> >>),
             BillOf(ss \o << <<l, g>>, <<LblBalanceDue, b>>, <<LblLaboratory, 500000>> >>) } :
           <<ss, l, g, b>> \in
               ScoreSections \X {LblGrandTotal, LblTotal, LblSubtotalAmountDue}
               \X CrossCheckAmounts \X {1249999, 1250000, 6000000}}

InitKeywords ==
    /\ extractedTotals = <<>>
    /\ hierarchy = <<>>
    /\ discrepancy = <<>>
    /\ financials = <<>>
    /\ deductionValidation = <<>>
    /\ NoRequest
    /\ NoKeywordCall
    /\ NoDeductionCall
    /\ NoExtraction

\* const level = classifyTotal(test.label, 10000, [])
ClassifyTotal ==
    /\ classification = <<>>
    /\ scored = <<>>
    /\ selection = <<>>
    /\ \E label \in AllLabels, amount \in {1000000, 2500000}, allTotals \in ClassifyContexts :
          classification' =
              <<[label |-> label, amount |-> amount, allTotals |-> allTotals,
                 level |-> classifyTotal(label, amount, allTotals)]>>
    /\ UNCHANGED <<logVars, scored, selection, libraryVars, deductionVars,
                 deductionCallVars, requestVars>>

\* score: scoreGrandTotalCandidate(total, allTotals, sectionTotals), as
\* selectBestGrandTotal calls it for each of two or more candidates
ScoreGrandTotalCandidate ==
    /\ classification = <<>>
    /\ scored = <<>>
    /\ selection = <<>>
    /\ \E bill \in ScoreBills :
          LET allTotals     == ClassifyAll(bill)
              sectionTotals == OfLevel(allTotals, "section_total")
              candidates    == OfLevel(allTotals, "grand_total")
          IN  /\ Len(candidates) > 1
              /\ \E i \in DOMAIN candidates :
                    scored' =
                        <<[total |-> candidates[i], allTotals |-> allTotals,
                           sectionTotals |-> sectionTotals,
                           score |-> scoreGrandTotalCandidate(candidates[i], allTotals,
                                                              sectionTotals)]>>
    /\ UNCHANGED <<logVars, classification, selection, libraryVars, deductionVars,
                 deductionCallVars, requestVars>>

\* bills whose best candidates tie: equal amounts, none of them last in the bill
TieBills ==
    { BillOf(<< <<LblGrandTotal, 2500000>>, <<LblBalanceDue, 2500000>>,
                <<LblLaboratory, 500000>> >>),
      BillOf(<< <<LblBalanceDue, 2500000>>, <<LblGrandTotal, 2500000>>,
                <<LblLaboratory, 500000>> >>),
      BillOf(<< <<LblAmountDue, 1000000>>, <<LblGrandTotal, 2500000>>,
                <<LblBalanceDue, 2500000>>, <<LblLaboratory, 500000>> >>) }

\* const best = selectBestGrandTotal(candidates, allTotals, sectionTotals), called on the
\* lists of a bill and then once more on the same lists; the lists are stored as the
\* call leaves them (candidates.map and [...allTotals] copy before sorting)
SelectBestGrandTotal ==
    /\ classification = <<>>
    /\ scored = <<>>
    /\ \/ /\ selection = <<>>
          /\ \E bill \in ScoreBills \cup TieBills \cup StatusBills :
                LET allTotals     == ClassifyAll(bill)
                    sectionTotals == OfLevel(allTotals, "section_total")
                    candidates    == OfLevel(allTotals, "grand_total")
                IN  selection' =
                        <<[given |-> <<candidates, allTotals, sectionTotals>>,
                           candidates |-> candidates, allTotals |-> allTotals,
                           sectionTotals |-> sectionTotals,
                           results |-> <<selectBestGrandTotal(candidates, allTotals,
                                                              sectionTotals)>>]>>
       \/ /\ selection # <<>>
          /\ Len(selection[1].results) = 1
          /\ selection' =
                <<[selection[1] EXCEPT !.results =
                      Append(@, selectBestGrandTotal(selection[1].candidates,
                                                     selection[1].allTotals,
                                                     selection[1].sectionTotals))]>>
    /\ UNCHANGED <<logVars, classification, scored, libraryVars, deductionVars,
                 deductionCallVars, requestVars>>

NextKeywords == ClassifyTotal \/ ScoreGrandTotalCandidate \/ SelectBestGrandTotal

SpecKeywords == InitKeywords /\ [][NextKeywords]_vars

----------------------------------------------------------------------------
(* Claims about the classifier and the scorer *)

\* C17: classifyTotal returns what the five rules give, first match wins, on the
\* trimmed lower-cased label: (1) a GRAND_TOTAL keyword in it: grand_total, whatever
\* the amount, the other totals and any SECTION_TOTAL keyword also in it; (2) else a
\* SECTION_TOTAL keyword: section_total; (3) else an INTERMEDIATE_TOTAL indicator and
\* "total": category_subtotal; (4) else exactly "total" or "total:": grand_total if the
\* amount is the maximum amount of allTotals, otherwise section_total; (5) otherwise
\* line_item, the empty and the 1-character label included.
C17_ClassifyTotalFiveRules ==
    classification # <<>> =>
        LET c     == classification[1]
            label == Trim(ToLowerCase(c.label))
            isMax == /\ \E i \in DOMAIN c.allTotals : c.allTotals[i].amount = c.amount
                     /\ \A i \in DOMAIN c.allTotals : c.allTotals[i].amount <= c.amount
        IN  /\ c.level =
                  (IF IncludesAny(label, GRAND_TOTAL_KEYWORDS) THEN "grand_total"
                   ELSE IF IncludesAny(label, SECTION_TOTAL_KEYWORDS) THEN "section_total"
                   ELSE IF /\ IncludesAny(label, INTERMEDIATE_TOTAL_INDICATORS)
                           /\ Includes(label, <<"t","o","t","a","l">>)
                        THEN "category_subtotal"
                   ELSE IF label \in {<<"t","o","t","a","l">>, <<"t","o","t","a","l",":">>}
                        THEN IF isMax THEN "grand_total" ELSE "section_total"
                   ELSE "line_item")
            /\ Len(c.label) <= 1 => c.level = "line_item"

\* C17 witness: a label with a SECTION_TOTAL and a GRAND_TOTAL keyword is grand_total,
\* with an amount that is not the largest
C17_Witness ==
    /\ classification # <<>>
    /\ classification[1].label = LblSubtotalAmountDue
    /\ classification[1].allTotals = BillImplicitTotal
    /\ classification[1].amount < 2500000
    /\ classification[1].level = "grand_total"

\* C18: the labels the documentation and the keyword test list as section totals
\* ("Total Hospital Charges", "Hospital Charges Subtotal", "Total Professional Fees",
\* "Ward Charges Total") are classified section_total, and the bare service names
\* "Room and Board", "Laboratory", "Emergency Room" are classified line_item.
C18_DocumentedSectionLabels ==
    classification # <<>> =>
        /\ classification[1].label \in
                {LblTotalHospitalCharges, LblHospitalChargesSubtotal,
                 LblTotalProfessionalFees, LblWardChargesTotal} =>
              classification[1].level = "section_total"
        /\ classification[1].label \in {LblRoomAndBoard, LblLaboratory, LblEmergencyRoom} =>
              classification[1].level = "line_item"

\* C20 (as stated): the score is the sum of +100 for a GRAND_TOTAL keyword in the
\* label, -50 for a SECTION_TOTAL keyword, +30 if the amount is the maximum of all
\* totals, +20 if the position is the largest of all totals, +50 if the amount is
\* within P10 of the sum of all section totals, else +25 if within P100, and -40 if
\* the amount is less than half of the maximum amount.
C20_ScoreIsSumOfTerms ==
    scored # <<>> =>
        LET s     == scored[1]
            label == ToLowerCase(s.total.label)
            diff  == Abs(s.total.amount - SumAmounts(s.sectionTotals))
        IN  s.score =
                (IF IncludesAny(label, GRAND_TOTAL_KEYWORDS) THEN 100 ELSE 0)
              - (IF IncludesAny(label, SECTION_TOTAL_KEYWORDS) THEN 50 ELSE 0)
              + (IF \A t \in Range(s.allTotals) : t.amount <= s.total.amount
                 THEN 30 ELSE 0)
              + (IF \A t \in Range(s.allTotals) : t.position <= s.total.position
                 THEN 20 ELSE 0)
              + (IF diff < 1000 THEN 50 ELSE IF diff < 10000 THEN 25 ELSE 0)
              - (IF \E t \in Range(s.allTotals) : 2 * s.total.amount < t.amount
                 THEN 40 ELSE 0)

\* C20 (amended): the same sum, where the +50 (less than P10 from the sum of the
\* section totals) or else +25 (less than P100) is added only when at least 2 section
\* totals exist.
C20_ScoreWithGuardedBonus ==
    scored # <<>> =>
        LET s     == scored[1]
            label == ToLowerCase(s.total.label)
            diff  == Abs(s.total.amount - SumAmounts(s.sectionTotals))
        IN  s.score =
                (IF IncludesAny(label, GRAND_TOTAL_KEYWORDS) THEN 100 ELSE 0)
              - (IF IncludesAny(label, SECTION_TOTAL_KEYWORDS) THEN 50 ELSE 0)
              + (IF \A t \in Range(s.allTotals) : t.amount <= s.total.amount
                 THEN 30 ELSE 0)
              + (IF \A t \in Range(s.allTotals) : t.position <= s.total.position
                 THEN 20 ELSE 0)
              + (IF Len(s.sectionTotals) < 2 THEN 0
                 ELSE IF diff < 1000 THEN 50 ELSE IF diff < 10000 THEN 25 ELSE 0)
              - (IF \E t \in Range(s.allTotals) : 2 * s.total.amount < t.amount
                 THEN 40 ELSE 0)

\* C20 witness: a candidate equal to the only section total of the bill, scored
\* without a section-sum bonus: keyword 100 + largest amount 30
C20_Witness ==
    /\ scored # <<>>
    /\ Len(scored[1].sectionTotals) = 1
    /\ scored[1].total.label = LblGrandTotal
    /\ scored[1].total.amount = SumAmounts(scored[1].sectionTotals)
    /\ scored[1].score = 130

\* C21: selectBestGrandTotal returns null for an empty candidate list, the sole
\* candidate for a one-element list, and otherwise the first candidate, in candidate
\* order, among those with the maximum score; the result is an element of
\* candidates; the call leaves candidates, allTotals and sectionTotals as they were
\* given; and a second call on the same lists returns the same candidate.
C21_SelectBestGrandTotal ==
    selection # <<>> =>
        LET s        == selection[1]
            cands    == s.given[1]
            score(i) == scoreGrandTotalCandidate(cands[i], s.given[2], s.given[3])
        IN  /\ \A k \in DOMAIN s.results :
                  LET r == s.results[k]
                  IN  /\ Len(cands) = 0 => r = <<>>
                      /\ Len(cands) = 1 => r = <<cands[1]>>
                      /\ Len(cands) > 1 =>
                            \E i \in DOMAIN cands :
                                /\ r = <<cands[i]>>
                                /\ \A j \in DOMAIN cands : score(j) <= score(i)
                                /\ \A j \in 1..(i - 1) : score(j) < score(i)
                      /\ r # <<>> => r[1] \in Range(cands)
            /\ <<s.candidates, s.allTotals, s.sectionTotals>> = s.given
            /\ Len(s.results) = 2 => s.results[1] = s.results[2]

\* C21 witness: three candidates, the second and the third tie with the best score,
\* and both calls return the second
C21_Witness ==
    /\ selection # <<>>
    /\ Len(selection[1].candidates) = 3
    /\ Len(selection[1].results) = 2
    /\ scoreGrandTotalCandidate(selection[1].candidates[2], selection[1].allTotals,
                                selection[1].sectionTotals)
         = scoreGrandTotalCandidate(selection[1].candidates[3], selection[1].allTotals,
                                    selection[1].sectionTotals)
    /\ selection[1].results[2] = <<selection[1].candidates[2]>>

----------------------------------------------------------------------------
(* Specification of the extraction log under overlapping requests *)

InitLogs ==
    /\ extractedTotals = <<>>
    /\ hierarchy = <<>>
    /\ discrepancy = <<>>
    /\ financials = <<>>
    /\ deductionValidation = <<>>
    /\ NoRequest
    /\ NoKeywordCall
    /\ NoDeductionCall
    /\ NoExtraction

\* extractBillFinancials of a request up to its await: clearExtractionLogs(), then
\* logExtraction('INIT', ...) and logExtraction('PROMPT', ...)
StartExtraction(r) ==
    /\ extraction[r].pc = "idle"
    /\ logs' = logExtraction(clearExtractionLogs(logs), r, PhasesBeforeAwait)
    /\ extraction' = [extraction EXCEPT ![r] =
                          [pc |-> "awaiting", recorded |-> PhasesBeforeAwait]]
    /\ UNCHANGED <<keywordVars, deductionCallVars, libraryVars, deductionVars, requestVars>>

\* extractBillFinancials of a request after await generateText(...)
ResumeExtraction(r) ==
    /\ extraction[r].pc = "awaiting"
    /\ \E phases \in PhasesOnAnswer \cup { <<"ERROR">>, <<"AI_RESPONSE", "ERROR">> } :
          /\ logs' = logExtraction(logs, r, phases)
          /\ extraction' = [extraction EXCEPT ![r] =
                                [pc |-> "done", recorded |-> @.recorded \o phases]]
    /\ UNCHANGED <<keywordVars, deductionCallVars, libraryVars, deductionVars, requestVars>>

NextLogs == \E r \in Requests : StartExtraction(r) \/ ResumeExtraction(r)

SpecLogs == InitLogs /\ [][NextLogs]_vars

\* C25: concurrent bill-analysis requests share no mutable state: under any
\* interleaving of two requests, the log entries recorded for one request are never
\* removed by the other request's clearExtractionLogs and never interleaved with the
\* other request's entries.
C25_RequestsShareNoLogState ==
    \A r \in Requests :
        LET own == SelectSeq(logs, LAMBDA e : e.request = r)
        IN  /\ [i \in DOMAIN own |-> own[i].phase] = extraction[r].recorded
            /\ \A i \in DOMAIN logs, k \in DOMAIN logs :
                  (i < k /\ logs[i].request = r /\ logs[k].request = r) =>
                      \A j \in i..k : logs[j].request = r

----------------------------------------------------------------------------
(* Specification of the deduction validation *)

\* the aggregate deduction fields, in centavos
DeductionAggregates ==
    [discounts : {0, 100000}, payments : {0, 50000},
     hmoCoverage : {0, 1200000}, philhealthCoverage : {0, 300000}]

\* itemized deductions: coverage and non-coverage types, zero and non-zero amounts,
\* documented or not
BreakdownItems ==
    {DeductionItem(type, amount, doc) :
        type \in {"discount", "hmo", "insurance"}, amount \in {0, 100000}, doc \in BOOLEAN}

BillFinancials(subtotal, agg, balanceDue, breakdown) ==
    [subtotal |-> subtotal, discounts |-> agg.discounts, payments |-> agg.payments,
     hmoCoverage |-> agg.hmoCoverage, philhealthCoverage |-> agg.philhealthCoverage,
     balanceDue |-> balanceDue, duplicatesDetected |-> 0,
     deductionBreakdown |-> breakdown]

InitDeductions ==
    /\ extractedTotals = <<>>
    /\ hierarchy = <<>>
    /\ discrepancy = <<>>
    /\ \E agg \in DeductionAggregates, breakdown \in SeqsUpTo(BreakdownItems, MaxDeductionItems) :
          financials = <<BillFinancials(4500000, agg, 0, breakdown)>>
    /\ deductionValidation = <<>>
    /\ NoRequest
    /\ NoKeywordCall
    /\ NoDeductionCall
    /\ NoExtraction

\* const deductionValidation = validateDeductions(finalFinancials)
ValidateDeductions ==
    /\ financials # <<>>
    /\ deductionValidation = <<>>
    /\ LET out == validateDeductions(financials[1])
       IN  /\ deductionValidation' = <<out.validation>>
           /\ financials' = <<out.financials>>
    /\ validatedFinancials' = financials
    /\ UNCHANGED <<logVars, keywordVars, revalidation, libraryVars, requestVars>>

\* validateDeductions(finalFinancials) once more, on the object the first call was given
ValidateDeductionsAgain ==
    /\ deductionValidation # <<>>
    /\ revalidation = <<>>
    /\ LET out == validateDeductions(financials[1])
       IN  /\ revalidation' = <<out.validation>>
           /\ financials' = <<out.financials>>
    /\ UNCHANGED <<logVars, keywordVars, validatedFinancials, deductionValidation, libraryVars,
                   requestVars>>

NextDeductions == ValidateDeductions \/ ValidateDeductionsAgain

SpecDeductions == InitDeductions /\ [][NextDeductions]_vars

----------------------------------------------------------------------------
(* The analyze-bill request: math checks on the extracted financials *)

\* Math.abs(diff) > 10 separates a mismatch from a match, in centavos
CHECK_TOLERANCE == 1000

\* the characters of the subtotal status values, for String.prototype.includes
SubtotalStatusChars ==
    [s \in {"CORRECT", "UNDERCHARGED_SUBTOTAL", "OVERCHARGED_SUBTOTAL"} |->
        CASE s = "CORRECT" -> <<"C","O","R","R","E","C","T">>
          [] s = "UNDERCHARGED_SUBTOTAL" ->
                <<"U","N","D","E","R","C","H","A","R","G","E","D","_",
                  "S","U","B","T","O","T","A","L">>
          [] s = "OVERCHARGED_SUBTOTAL" ->
                <<"O","V","E","R","C","H","A","R","G","E","D","_",
                  "S","U","B","T","O","T","A","L">>]

\* a || b for numbers: the first operand unless it is 0
OrElse(a, b) == IF a # 0 THEN a ELSE b

\* an element of the items array of the response
ResponseItem(name, total, status, reason, delta, expectedPrice, impact) ==
    [name |-> name, total |-> total, status |-> status, reason |-> reason,
     delta |-> delta, expectedPrice |-> expectedPrice, impact |-> impact]

\* an item of the line-item analysis; reason and expectedPrice are the analyser's
AnalysisItem(total, status) ==
    ResponseItem("Laboratory", total, status, "analysis", 0, <<>>, "")

\* the text-based fallback: a zero subtotal is replaced by what the text lines show,
\* when they show a subtotal or a balance
TextFallback(f, text) ==
    IF f.subtotal = 0 /\ (text.foundSubtotal # 0 \/ text.foundBalance # 0)
    THEN [f EXCEPT !.subtotal   = OrElse(text.foundSubtotal, f.subtotal),
                   !.balanceDue = OrElse(text.foundBalance, f.balanceDue),
                   !.discounts  = OrElse(text.foundDiscount, f.discounts),
                   !.payments   = OrElse(text.foundPayment, f.payments)]
    ELSE f

\* the loop over analysis.items: calculatedSubtotal += Number(item.total) || 0;
\* rounding to centavos leaves a sum of centavos as it is
RECURSIVE CalculatedSubtotal(_)
CalculatedSubtotal(items) ==
    IF items = <<>> THEN 0 ELSE items[1].total + CalculatedSubtotal(Tail(items))

CountStatus(items, status) ==
    Len(SelectSeq(items, LAMBDA item : item.status = status))

\* CHECK 1: subtotalStatus
SubtotalStatus(calculatedSubtotal, f) ==
    LET subtotalDiff == calculatedSubtotal - f.subtotal
    IN  IF f.subtotal > 0 /\ calculatedSubtotal > 0 /\ Abs(subtotalDiff) > CHECK_TOLERANCE
        THEN IF subtotalDiff > 0 THEN "UNDERCHARGED_SUBTOTAL" ELSE "OVERCHARGED_SUBTOTAL"
        ELSE "CORRECT"

\* CHECK 1: the records it pushes to mathErrors
SubtotalErrors(calculatedSubtotal, f) ==
    LET subtotalDiff == calculatedSubtotal - f.subtotal
        status == SubtotalStatus(calculatedSubtotal, f)
    IN  IF status = "UNDERCHARGED_SUBTOTAL"
        THEN <<ResponseItem("SUBTOTAL UNDERCHARGE", f.subtotal, "error",
                   "Hospital undercharged", Abs(subtotalDiff),
                   <<calculatedSubtotal>>, "hospital")>>
        ELSE IF status = "OVERCHARGED_SUBTOTAL"
        THEN <<ResponseItem("SUBTOTAL OVERCHARGE", f.subtotal, "error",
                   "Hospital overcharged", Abs(subtotalDiff),
                   <<calculatedSubtotal>>, "patient")>>
        ELSE <<>>

\* finalFinancials.subtotal - totalDeductions
CalculatedBalance(f) == f.subtotal - AggregateDeductions(f)

\* CHECK 2: balanceStatus
BalanceStatus(f) ==
    LET balanceDiff == CalculatedBalance(f) - f.balanceDue
    IN  IF f.subtotal > 0 /\ f.balanceDue >= 0 /\ Abs(balanceDiff) > CHECK_TOLERANCE
        THEN IF balanceDiff > 0 THEN "PATIENT_UNDERCHARGED" ELSE "PATIENT_OVERCHARGED"
        ELSE "CORRECT"

\* CHECK 2: the records it pushes to mathErrors
BalanceErrors(f) ==
    LET balanceDiff == CalculatedBalance(f) - f.balanceDue
        status == BalanceStatus(f)
    IN  IF status = "PATIENT_UNDERCHARGED"
        THEN <<ResponseItem("PATIENT BALANCE UNDERCHARGE", f.balanceDue, "error",
                   "Patient is paying LESS", Abs(balanceDiff),
                   <<CalculatedBalance(f)>>, "hospital")>>
        ELSE IF status = "PATIENT_OVERCHARGED"
        THEN <<ResponseItem("PATIENT BALANCE OVERCHARGE", f.balanceDue, "error",
                   "Patient is paying MORE", Abs(balanceDiff),
                   <<CalculatedBalance(f)>>, "patient")>>
        ELSE <<>>

\* totalDiscrepancy += Math.abs(diff) in each failing check
TotalDiscrepancy(calculatedSubtotal, f) ==
    (IF SubtotalStatus(calculatedSubtotal, f) # "CORRECT"
     THEN Abs(calculatedSubtotal - f.subtotal) ELSE 0)
    + (IF BalanceStatus(f) # "CORRECT"
       THEN Abs(CalculatedBalance(f) - f.balanceDue) ELSE 0)

\* ChargeStatus with the overcharge results tested first
ChargeStatus_OverchargeFirst(subtotalStatus, balanceStatus) ==
    IF subtotalStatus = "CORRECT" /\ balanceStatus = "CORRECT" THEN "CORRECTLY_CHARGED"
    ELSE IF subtotalStatus = "OVERCHARGED_SUBTOTAL" \/ balanceStatus = "PATIENT_OVERCHARGED"
    THEN "OVERCHARGED"
    ELSE "UNDERCHARGED"

\* DETERMINE FINAL STATUS
ChargeStatus(subtotalStatus, balanceStatus) ==
    IF subtotalStatus = "CORRECT" /\ balanceStatus = "CORRECT" THEN "CORRECTLY_CHARGED"
    ELSE IF \/ Includes(SubtotalStatusChars[subtotalStatus],
                         <<"U","N","D","E","R","C","H","A","R","G","E","D">>)
            \/ balanceStatus = "PATIENT_UNDERCHARGED"
    THEN "UNDERCHARGED"
    ELSE "OVERCHARGED"

AffectedParty(chargeStatus) ==
    IF chargeStatus = "UNDERCHARGED" THEN "hospital"
    ELSE IF chargeStatus = "OVERCHARGED" THEN "patient"
    ELSE "none"

\* FinalItems with the analysed items ahead of the math errors
FinalItems_AnalysisFirst(mathErrors, analysisItems) == analysisItems \o mathErrors

\* const finalItems = [...mathErrors, ...analysis.items]
FinalItems(mathErrors, analysisItems) == mathErrors \o analysisItems

\* hasFinancialData, which couldVerifyMath copies
CouldVerifyMath(f) == f.subtotal > 0 \/ f.balanceDue >= 0

\* the warnings pushed to finalItems for the unverified deduction items
DeductionWarnings(deductionItems) ==
    LET unverified == SelectSeq(deductionItems,
                                LAMBDA item : ~item.isVerified /\ item.amount > 0)
    IN  [i \in DOMAIN unverified |->
            ResponseItem(unverified[i].description, unverified[i].amount, "warning",
                         IF unverified[i].verificationIssue # ""
                         THEN unverified[i].verificationIssue
                         ELSE "Documentation not found - requires verification",
                         0, <<>>, "")]

\* which overallMessage branch is taken
OverallAssessment(chargeStatus, couldVerifyMath) ==
    IF chargeStatus = "CORRECTLY_CHARGED" /\ couldVerifyMath
    THEN "CORRECTLY CHARGED - All calculations verified"
    ELSE IF chargeStatus = "UNDERCHARGED" THEN "UNDERCHARGED - Hospital loses"
    ELSE IF chargeStatus = "OVERCHARGED" THEN "OVERCHARGED - Patient pays extra"
    ELSE "Could not verify bill calculations"

Confidence(chargeStatus, couldVerifyMath, f, validation) ==
    LET base == IF chargeStatus = "CORRECTLY_CHARGED" /\ couldVerifyMath
                THEN (IF validation.validationPassed THEN 100 ELSE 85)
                ELSE IF chargeStatus = "UNDERCHARGED" THEN 90
                ELSE IF chargeStatus = "OVERCHARGED" THEN 95
                ELSE 50
        dup  == IF f.duplicatesDetected > 0 THEN MinOf({base, 85}) ELSE base
    IN  IF validation.coverageStatus = "unconfirmed" THEN MinOf({dup, 80}) ELSE dup

\* the report POST answers with, from the extracted text, the extracted financials
\* and the line-item analysis; also the financials object as the handler leaves it
AnalysisReport(text, aiFinancials, analysisItems) ==
    LET finalFinancials    == TextFallback(aiFinancials, text)
        calculatedSubtotal == CalculatedSubtotal(analysisItems)
        duplicateCount     == CountStatus(analysisItems, "duplicate")
        subtotalStatus     == SubtotalStatus(calculatedSubtotal, finalFinancials)
        balanceStatus      == BalanceStatus(finalFinancials)
        mathErrors         == SubtotalErrors(calculatedSubtotal, finalFinancials)
                                \o BalanceErrors(finalFinancials)
        chargeStatus       == ChargeStatus(subtotalStatus, balanceStatus)
        couldVerifyMath    == CouldVerifyMath(finalFinancials)
        validated          == validateDeductions(finalFinancials)
        validation         == validated.validation
        unverifiedRecord   == ~validation.validationPassed
                                /\ validation.unverifiedDeductions > 0
        errorCount         == duplicateCount + Len(mathErrors)
                                + (IF unverifiedRecord THEN 1 ELSE 0)
        totalDiscrepancy   == TotalDiscrepancy(calculatedSubtotal, finalFinancials)
    IN  [response |->
            [kind |-> "report", status |-> 200,
             items |-> FinalItems(mathErrors, analysisItems)
                         \o DeductionWarnings(validation.deductionItems),
             overallAssessment |-> OverallAssessment(chargeStatus, couldVerifyMath),
             totalCharges |-> calculatedSubtotal,
             statedTotal |-> finalFinancials.balanceDue,
             billSubtotal |-> finalFinancials.subtotal,
             calculatedLineItemsTotal |-> calculatedSubtotal,
             discounts |-> finalFinancials.discounts,
             payments |-> finalFinancials.payments,
             hmoCoverage |-> finalFinancials.hmoCoverage,
             philhealthCoverage |-> finalFinancials.philhealthCoverage,
             chargeStatus |-> chargeStatus,
             subtotalCheck |-> subtotalStatus,
             balanceCheck |-> balanceStatus,
             totalDiscrepancy |-> totalDiscrepancy,
             affectedParty |-> AffectedParty(chargeStatus),
             confidence |-> Confidence(chargeStatus, couldVerifyMath,
                                       finalFinancials, validation),
             deductionValidation |-> validation,
             totalMathErrors |-> totalDiscrepancy,
             hasErrors |-> errorCount > 0 \/ ~validation.validationPassed,
             errorCount |-> errorCount,
             warningCount |-> CountStatus(analysisItems, "warning")
                                + (IF validation.validationPassed THEN 0
                                   ELSE Len(validation.issues)),
             duplicateCount |-> duplicateCount,
             couldVerifyMath |-> couldVerifyMath],
         financials |-> validated.financials,
         validation |-> validation]

\* NextResponse.json({ error }, { status })
ErrorResponse(status, error) == [kind |-> "error", status |-> status, error |-> error]

----------------------------------------------------------------------------
(* Specification of the analyze-bill request *)

\* what the text fallback finds in the bill text (0: no such line); amounts in centavos
TextFindings ==
    { [foundSubtotal |-> 0, foundBalance |-> 0, foundDiscount |-> 0, foundPayment |-> 0],
      [foundSubtotal |-> 0, foundBalance |-> 50000, foundDiscount |-> 0, foundPayment |-> 0],
      [foundSubtotal |-> 4500000, foundBalance |-> 4400000,
       foundDiscount |-> 100000, foundPayment |-> 0] }

RequestAggregates ==
    { [discounts |-> 0, payments |-> 0, hmoCoverage |-> 0, philhealthCoverage |-> 0],
      [discounts |-> 100000, payments |-> 0, hmoCoverage |-> 0, philhealthCoverage |-> 0],
      [discounts |-> 0, payments |-> 0, hmoCoverage |-> 1200000, philhealthCoverage |-> 0],
      [discounts |-> 100000, payments |-> 50000, hmoCoverage |-> 1200000,
       philhealthCoverage |-> 300000] }

RequestBreakdowns ==
    { <<>>,
      <<DeductionItem("discount", 100000, TRUE)>>,
      <<DeductionItem("discount", 100000, TRUE), DeductionItem("hmo", 1200000, FALSE)>> }

\* the BillFinancials extractBillFinancials builds from a parsed answer: the stated
\* subtotal is not found (0) or around the check tolerance, the stated balance is
\* negative or around the check tolerance
ExtractedFinancials ==
    {BillFinancials(subtotal, agg, balanceDue, breakdown) :
        subtotal \in {0, 4499999, 4500000, 4501000, 4501001}, agg \in RequestAggregates,
        balanceDue \in {-100, 4400000, 4401000, 4450000}, breakdown \in RequestBreakdowns}

\* the BillFinancials extractBillFinancials returns when no data could be extracted
NoFinancialData ==
    BillFinancials(0, [discounts |-> 0, payments |-> 0, hmoCoverage |-> 0,
                       philhealthCoverage |-> 0], 0, <<>>)

\* the items of a line-item analysis
AnalysisItems ==
    { AnalysisItem(4388398, "fair"), AnalysisItem(4500000, "fair"),
      AnalysisItem(1000, "fair"), AnalysisItem(1000, "duplicate"),
      AnalysisItem(1000, "warning") }

Init ==
    /\ extractedTotals = <<>>
    /\ hierarchy = <<>>
    /\ discrepancy = <<>>
    /\ financials = <<>>
    /\ deductionValidation = <<>>
    /\ NoRequest
    /\ NoKeywordCall
    /\ NoDeductionCall
    /\ NoExtraction

\* if (!file) return 400
PostWithoutFile ==
    /\ pc = "idle"
    /\ pc' = "done"
    /\ response' = <<ErrorResponse(400, "No file provided")>>
    /\ UNCHANGED <<logVars, keywordVars, deductionCallVars, libraryVars, deductionVars, billText, extractionFailed>>

\* the file is there: both extractions are started
PostFile ==
    /\ pc = "idle"
    /\ pc' = "extracting"
    /\ UNCHANGED <<logVars, keywordVars, deductionCallVars, libraryVars, deductionVars, billText, extractionFailed, response>>

\* extractTextFromFile returns the text
ExtractTextFromFile ==
    /\ pc = "extracting"
    /\ billText = <<>>
    /\ \E text \in TextFindings : billText' = <<text>>
    /\ UNCHANGED <<logVars, keywordVars, deductionCallVars, libraryVars, deductionVars, pc, extractionFailed, response>>

\* extractTextFromFile throws; Promise.all rejects and the catch block answers
ExtractTextFromFileThrows ==
    /\ pc = "extracting"
    /\ billText = <<>>
    /\ pc' = "done"
    /\ response' = <<ErrorResponse(500, "Failed to read the bill")>>
    /\ UNCHANGED <<logVars, keywordVars, deductionCallVars, libraryVars, deductionVars, billText, extractionFailed>>

\* extractBillFinancials parses the vision answer
ExtractBillFinancials ==
    /\ pc = "extracting"
    /\ financials = <<>>
    /\ \E f \in ExtractedFinancials : financials' = <<f>>
    /\ ExtractionLogged(1, <<"AI_RESPONSE", "RESULT">>)
    /\ UNCHANGED <<keywordVars, deductionCallVars, libraryVars, deductionValidation, requestVars>>

\* extractBillFinancials: the vision call fails or its answer cannot be parsed
ExtractBillFinancialsFails ==
    /\ pc = "extracting"
    /\ financials = <<>>
    /\ financials' = <<NoFinancialData>>
    /\ extractionFailed' = TRUE
    /\ ExtractionLogged(1, <<"ERROR">>)
    /\ UNCHANGED <<keywordVars, deductionCallVars, libraryVars, deductionValidation, pc, billText, response>>

\* the rest of the handler once both extractions returned
AnalyzeAndRespond ==
    /\ pc = "extracting"
    /\ billText # <<>>
    /\ financials # <<>>
    /\ \E analysisItems \in SeqsUpTo(AnalysisItems, MaxItems) :
          LET out == AnalysisReport(billText[1], financials[1], analysisItems)
          IN  /\ response' = <<out.response>>
              /\ financials' = <<out.financials>>
              /\ deductionValidation' = <<out.validation>>
    /\ pc' = "done"
    /\ UNCHANGED <<logVars, keywordVars, deductionCallVars, libraryVars, billText, extractionFailed>>

\* the parsed analysis has no items array: the loop over analysis.items throws
AnalysisWithoutItems ==
    /\ pc = "extracting"
    /\ billText # <<>>
    /\ financials # <<>>
    /\ pc' = "done"
    /\ response' = <<ErrorResponse(500, "analysis.items is not iterable")>>
    /\ UNCHANGED <<logVars, keywordVars, deductionCallVars, libraryVars, deductionVars, billText, extractionFailed>>

Next ==
    \/ PostWithoutFile
    \/ PostFile
    \/ ExtractTextFromFile
    \/ ExtractTextFromFileThrows
    \/ ExtractBillFinancials
    \/ ExtractBillFinancialsFails
    \/ AnalyzeAndRespond
    \/ AnalysisWithoutItems

Spec == Init /\ [][Next]_vars

----------------------------------------------------------------------------
(* Claims about the hierarchy builder *)

\* C1: the hierarchy returned by buildTotalHierarchy counts every candidate in exactly
\* one place: lineItems + categorySubtotals + sectionTotals + (1 if grandTotal is
\* non-null) = allTotals, also with several grand_total candidates and with a total
\* promoted by fallback.
C1_HierarchyPartitionsAllTotals ==
    hierarchy # <<>> =>
        LET h == hierarchy[1]
        IN  Len(h.lineItems) + Len(h.categorySubtotals) + Len(h.sectionTotals)
                + Len(h.grandTotal) = Len(h.allTotals)

\* C11: buildTotalHierarchy sets verificationStatus to failed if no grand total was
\* resolved; else verified if exactly one candidate was classified grand_total; else
\* uncertain if more than one was (the highest-scoring candidate is the grand total and
\* a note names the count and the selection); else likely_correct; and, whatever that
\* gave, verified if at least 2 section totals exist and their sum is within P10 of
\* the resolved grand total ("within" as the code has it: a difference below P10).
C11_StatusOrder ==
    hierarchy # <<>> =>
        LET h          == hierarchy[1]
            candidates == SelectSeq(h.allTotals, LAMBDA t : t.level = "grand_total")
            n          == Len(candidates)
            score(t)   == scoreGrandTotalCandidate(t, h.allTotals, h.sectionTotals)
            sumMatches == /\ h.grandTotal # <<>>
                          /\ Len(h.sectionTotals) >= 2
                          /\ Abs(h.grandTotal[1].amount - SumAmounts(h.sectionTotals)) < 1000
        IN  /\ h.verificationStatus =
                  (IF h.grandTotal = <<>> THEN "failed"
                   ELSE IF sumMatches THEN "verified"
                   ELSE IF n = 1 THEN "verified"
                   ELSE IF n > 1 THEN "uncertain"
                   ELSE "likely_correct")
            /\ n > 1 =>
                  /\ h.grandTotal # <<>>
                  /\ h.grandTotal[1] \in Range(candidates)
                  /\ \A c \in Range(candidates) : score(h.grandTotal[1]) >= score(c)
                  /\ \E i \in DOMAIN h.verificationNotes :
                        /\ h.verificationNotes[i].kind = "multiple_candidates"
                        /\ h.verificationNotes[i].count = n
                        /\ h.verificationNotes[i].label = h.grandTotal[1].label

\* C11 witness: two candidates, the selected one a centavo less than P10 from the sum
\* of two section totals: the status is verified, not uncertain
C11_Witness ==
    /\ hierarchy # <<>>
    /\ Len(SelectSeq(hierarchy[1].allTotals, LAMBDA t : t.level = "grand_total")) = 2
    /\ Len(hierarchy[1].sectionTotals) = 2
    /\ hierarchy[1].grandTotal[1].amount - SumAmounts(hierarchy[1].sectionTotals) = 999
    /\ hierarchy[1].verificationStatus = "verified"

\* C12: the section-sum cross-check is warn-only: the resolved grand total keeps the
\* label and amount of the selected entry of the bill (the section sum is never put in
\* its place), the final status is the status assigned before the cross-check or
\* verified, and with at least 2 section totals whose sum differs from the grand
\* total by more than P100 a warning note is the last note and the status is the one
\* assigned before the cross-check.
C12_CrossCheckWarnOnly ==
    (hierarchy # <<>> /\ hierarchy[1].grandTotal # <<>>) =>
        LET h      == hierarchy[1]
            g      == h.grandTotal[1]
            n      == Len(SelectSeq(h.allTotals, LAMBDA t : t.level = "grand_total"))
            before == IF n = 1 THEN "verified"
                      ELSE IF n > 1 THEN "uncertain" ELSE "likely_correct"
            diff   == Abs(SumAmounts(h.sectionTotals) - g.amount)
            notes  == h.verificationNotes
        IN  /\ \E t \in Range(h.allTotals) :
                  /\ t.label = g.label
                  /\ t.amount = g.amount
                  /\ t.position = g.position
                  /\ n >= 1 => t.level = "grand_total"
            /\ h.verificationStatus \in {before, "verified"}
            /\ (Len(h.sectionTotals) >= 2 /\ diff > 10000) =>
                  /\ h.verificationStatus = before
                  /\ Len(notes) > 0
                  /\ notes[Len(notes)].kind = "section_sum_differs"
                  /\ \A i \in 1..(Len(notes) - 1) : notes[i].kind # "section_sum_differs"

\* C12 witness: a single candidate a centavo more than P100 above the sum of two
\* section totals: warned about, still verified
C12_Witness ==
    /\ hierarchy # <<>>
    /\ Len(SelectSeq(hierarchy[1].allTotals, LAMBDA t : t.level = "grand_total")) = 1
    /\ Len(hierarchy[1].sectionTotals) = 2
    /\ hierarchy[1].grandTotal[1].amount - SumAmounts(hierarchy[1].sectionTotals) = 10001
    /\ hierarchy[1].verificationStatus = "verified"
    /\ Len(hierarchy[1].verificationNotes) = 2
    /\ hierarchy[1].verificationNotes[2].kind = "section_sum_differs"

\* C13: fallback inference: when no total is classified grand_total and at least 2
\* section totals exist, the largest amount among all totals is promoted to
\* grand_total; if it is within P100 (less than P100 away, as the code compares) of
\* the sum of the section totals an inference note is recorded, otherwise the
\* promoted total gets confidence 60 and a warning note is recorded; the status is
\* likely_correct unless the section-sum cross-check makes it verified.
C13_FallbackInference ==
    hierarchy # <<>> =>
        LET h == hierarchy[1]
            n == Len(SelectSeq(h.allTotals, LAMBDA t : t.level = "grand_total"))
        IN  (n = 0 /\ Len(h.sectionTotals) >= 2) =>
              /\ h.grandTotal # <<>>
              /\ LET g == h.grandTotal[1]
                     d == Abs(g.amount - SumAmounts(h.sectionTotals))
                 IN  /\ g.level = "grand_total"
                     /\ \A t \in Range(h.allTotals) : t.amount <= g.amount
                     /\ \E t \in Range(h.allTotals) :
                           /\ t.label = g.label /\ t.amount = g.amount
                           /\ t.position = g.position
                           /\ g.confidence = IF d < 10000 THEN t.confidence ELSE 60
                     /\ Len(h.verificationNotes) >= 1
                     /\ h.verificationNotes[1].kind =
                           (IF d < 10000 THEN "inferred" ELSE "largest_amount_used")
                     /\ h.verificationStatus =
                           (IF d < 1000 THEN "verified" ELSE "likely_correct")

\* C13 witness: no candidate, two section totals, the largest amount exactly P100
\* above their sum: promoted as a last resort
C13_Witness ==
    /\ hierarchy # <<>>
    /\ Len(SelectSeq(hierarchy[1].allTotals, LAMBDA t : t.level = "grand_total")) = 0
    /\ Len(hierarchy[1].sectionTotals) = 2
    /\ hierarchy[1].grandTotal # <<>>
    /\ hierarchy[1].grandTotal[1].amount - SumAmounts(hierarchy[1].sectionTotals) = 10000
    /\ hierarchy[1].grandTotal[1].confidence = 60
    /\ hierarchy[1].verificationStatus = "likely_correct"

\* C15: implicit grand total: for a bill with two section totals, no label with a
\* GRAND_TOTAL keyword, and a last entry "Total" whose amount is the sum of the two
\* section totals and the maximum of all amounts (TC004, and the same bill with the
\* section labels of the keyword list), buildTotalHierarchy resolves that "Total" as
\* the grand total, keeps sectionTotals.length = 2 and reports likely_correct.
C15_ImplicitGrandTotal ==
    LET entries(b) == [i \in DOMAIN b |-> <<b[i].label, b[i].amount>>]
    IN
    (/\ hierarchy # <<>>
     /\ entries(extractedTotals) \in {entries(BillTC004), entries(BillImplicitTotal)}) =>
        /\ hierarchy[1].grandTotal # <<>>
        /\ hierarchy[1].grandTotal[1].label = LblTotal
        /\ hierarchy[1].grandTotal[1].amount = 2500000
        /\ Len(hierarchy[1].sectionTotals) = 2
        /\ hierarchy[1].verificationStatus = "likely_correct"

\* C16: pre-deduction total wins: for the bill of TC003 ("GROSS TOTAL" 60000 equal to
\* the sum of the sections, then deduction lines, then "Balance Due" 34000) the grand
\* total is the gross total, amount 60000 and label "GROSS TOTAL".
C16_PreDeductionTotalWins ==
    LET entries(b) == [i \in DOMAIN b |-> <<b[i].label, b[i].amount>>]
    IN
    (hierarchy # <<>> /\ entries(extractedTotals) = entries(BillTC003)) =>
        /\ hierarchy[1].grandTotal # <<>>
        /\ hierarchy[1].grandTotal[1].amount = 6000000
        /\ hierarchy[1].grandTotal[1].label = LblGrossTotal

\* C19: sectionTotals holds exactly the section-level totals: for the bills with a
\* hospital section and a professional-fees section (TC002, TC004, TC006, whatever
\* the two section totals are called) sectionTotals.length is 2, and "ER Subtotal" and
\* "Ward Subtotal" are never among the section totals.
C19_SectionTotalsAreSectionLevel ==
    LET entries(b) == [i \in DOMAIN b |-> <<b[i].label, b[i].amount>>]
    IN
    hierarchy # <<>> =>
        /\ entries(extractedTotals) \in
                {entries(BillTC002), entries(BillTC004), entries(BillTC006)} =>
              Len(hierarchy[1].sectionTotals) = 2
        /\ \A t \in Range(hierarchy[1].sectionTotals) :
              t.label \notin {LblERSubtotal, LblWardSubtotal}

\* C30: the resolved grand total is the highest total: whenever buildTotalHierarchy
\* resolves a grand total, its amount is greater than or equal to the amount of
\* every entry of sectionTotals.
C30_GrandTotalNotBelowSectionTotals ==
    (hierarchy # <<>> /\ hierarchy[1].grandTotal # <<>>) =>
        \A t \in Range(hierarchy[1].sectionTotals) :
            t.amount <= hierarchy[1].grandTotal[1].amount

----------------------------------------------------------------------------
(* Claims about the discrepancy calculation *)

\* C2: calculateDiscrepancy decides in this order, first match applies: status neither
\* verified nor likely_correct -> unable_to_verify / none / flagged; else a difference
\* of at most P1.00 -> no_discrepancy / none / not flagged; else calculated > stated ->
\* undercharge / hospital / flagged; else overcharge / patient / flagged.
C2_DecisionOrder ==
    discrepancy # <<>> =>
        LET r  == discrepancy[1]
            st == hierarchy[1].verificationStatus
            verdict == <<r.status, r.affectedParty, r.shouldFlag>>
        IN  IF st \notin {"verified", "likely_correct"}
            THEN verdict = <<"unable_to_verify", "none", TRUE>>
            ELSE IF Abs(r.calculatedTotal - r.billGrandTotal) <= 100
            THEN verdict = <<"no_discrepancy", "none", FALSE>>
            ELSE IF r.calculatedTotal > r.billGrandTotal
            THEN verdict = <<"undercharge", "hospital", TRUE>>
            ELSE verdict = <<"overcharge", "patient", TRUE>>

\* C2 witness: a verified hierarchy and totals exactly P1.00 apart give no_discrepancy
C2_Witness ==
    /\ discrepancy # <<>>
    /\ hierarchy[1].verificationStatus = "verified"
    /\ discrepancy[1].calculatedTotal - discrepancy[1].billGrandTotal = 100
    /\ discrepancy[1].status = "no_discrepancy"

\* the result of the call with the two amounts swapped
Swapped == calculateDiscrepancy(discrepancy[1].billGrandTotal,
                                discrepancy[1].calculatedTotal, hierarchy[1])

\* C3 as stated: swapping the two amounts keeps discrepancy and flips affectedParty
\* between hospital and patient, except at exact equality, where both report none.
C3_SwapFlipsUnlessEqual ==
    discrepancy # <<>> =>
        LET r == discrepancy[1]
        IN  /\ r.discrepancy = Swapped.discrepancy
            /\ IF r.calculatedTotal = r.billGrandTotal
               THEN r.affectedParty = "none" /\ Swapped.affectedParty = "none"
               ELSE {r.affectedParty} \cup {Swapped.affectedParty} = {"hospital", "patient"}

\* C3 amended: swapping keeps discrepancy; affectedParty flips between hospital and
\* patient when the hierarchy is verified or likely_correct and the amounts differ by
\* more than P1.00; in every other case both calls report none.
C3_SwapFlipsOutsideTolerance ==
    discrepancy # <<>> =>
        LET r == discrepancy[1]
            st == hierarchy[1].verificationStatus
        IN  /\ r.discrepancy = Swapped.discrepancy
            /\ IF /\ st \in {"verified", "likely_correct"}
                  /\ Abs(r.calculatedTotal - r.billGrandTotal) > 100
               THEN {r.affectedParty} \cup {Swapped.affectedParty} = {"hospital", "patient"}
               ELSE r.affectedParty = "none" /\ Swapped.affectedParty = "none"

\* C3 witness: amounts that differ by P0.50 under a verified hierarchy: both calls
\* report none although the amounts are not equal
C3_Witness ==
    /\ discrepancy # <<>>
    /\ hierarchy[1].verificationStatus = "verified"
    /\ discrepancy[1].calculatedTotal - discrepancy[1].billGrandTotal = 50
    /\ discrepancy[1].affectedParty = "none"
    /\ Swapped.affectedParty = "none"

----------------------------------------------------------------------------
(* Claims about the deduction validation *)

\* C4: the DeductionValidation returned by validateDeductions has totalDeductions =
\* verifiedDeductions + unverifiedDeductions exactly, and validationPassed is false
\* whenever unverifiedDeductions > 0.
C4_DeductionConservation ==
    deductionValidation # <<>> =>
        LET v == deductionValidation[1]
        IN  /\ v.totalDeductions = v.verifiedDeductions + v.unverifiedDeductions
            /\ v.unverifiedDeductions > 0 => ~v.validationPassed

\* C4 witness: an itemized breakdown with a verified and an unverified amount and no
\* issue recorded: validation fails on the unverified amount alone
C4_Witness ==
    /\ deductionValidation # <<>>
    /\ deductionValidation[1].verifiedDeductions > 0
    /\ deductionValidation[1].unverifiedDeductions > 0
    /\ deductionValidation[1].issues = <<>>
    /\ ~deductionValidation[1].validationPassed

\* C5: validateDeductions is strict: if the deduction items it evaluates contain an
\* item without documentation, of any amount, validationPassed is false; it is true
\* only if the issues list is empty and no unverified item exists.
C5_AnyUnverifiedItemFails ==
    deductionValidation # <<>> =>
        LET v == deductionValidation[1]
            unverifiedItem == \E i \in DOMAIN v.deductionItems :
                                  ~v.deductionItems[i].hasDocumentation
        IN  /\ unverifiedItem => ~v.validationPassed
            /\ v.validationPassed => (v.issues = <<>> /\ ~unverifiedItem)

\* C23: validateDeductions uses a non-empty deductionBreakdown as is, without
\* synthesized items; for an empty breakdown it synthesizes exactly one item per
\* non-zero aggregate field among discounts, payments, hmoCoverage and
\* philhealthCoverage, with that field's amount, hasDocumentation false, isVerified
\* false and a non-empty verificationIssue; with no deduction data at all it returns
\* validationPassed true, totalDeductions 0 and no issues.
C23_BreakdownOrSynthesizedItems ==
    (deductionValidation # <<>> /\ validatedFinancials # <<>>) =>
        LET f      == validatedFinancials[1]
            v      == deductionValidation[1]
            given  == f.deductionBreakdown
            items  == v.deductionItems
            fields == { <<"discount", f.discounts>>, <<"payment", f.payments>>,
                        <<"hmo", f.hmoCoverage>>, <<"philhealth", f.philhealthCoverage>> }
            nonZero == {p \in fields : p[2] # 0}
        IN  /\ Len(given) > 0 => items = given
            /\ Len(given) = 0 =>
                  /\ Len(items) = Cardinality(nonZero)
                  /\ \A p \in nonZero : \E i \in DOMAIN items :
                        /\ items[i].type = p[1]
                        /\ items[i].amount = p[2]
                  /\ \A i \in DOMAIN items :
                        /\ ~items[i].hasDocumentation
                        /\ ~items[i].isVerified
                        /\ items[i].verificationIssue # ""
            /\ (Len(given) = 0 /\ nonZero = {}) =>
                  /\ v.validationPassed
                  /\ v.totalDeductions = 0
                  /\ v.issues = <<>>

\* C23 witness: no breakdown, a payment and a PhilHealth coverage: two synthesized
\* items
C23_Witness ==
    /\ deductionValidation # <<>>
    /\ validatedFinancials # <<>>
    /\ validatedFinancials[1].deductionBreakdown = <<>>
    /\ validatedFinancials[1].discounts = 0
    /\ validatedFinancials[1].payments > 0
    /\ validatedFinancials[1].hmoCoverage = 0
    /\ validatedFinancials[1].philhealthCoverage > 0
    /\ Len(deductionValidation[1].deductionItems) = 2
    /\ deductionValidation[1].deductionItems[1].type = "payment"

\* C24: coverageStatus is no_coverage if hmoCoverage and philhealthCoverage are both
\* 0; otherwise, over the items of type hmo, philhealth or insurance: confirmed if at
\* least one exists and all are verified, unconfirmed if at least one exists and one
\* is unverified, unknown if none exists.  Whenever it is unconfirmed the issues
\* contain the warning that the default assumption is full payment, and
\* validationPassed is false.
C24_CoverageStatus ==
    (deductionValidation # <<>> /\ validatedFinancials # <<>>) =>
        LET f        == validatedFinancials[1]
            v        == deductionValidation[1]
            coverage == {i \in DOMAIN v.deductionItems :
                            v.deductionItems[i].type \in {"hmo", "philhealth", "insurance"}}
        IN  /\ v.coverageStatus =
                  (IF f.hmoCoverage = 0 /\ f.philhealthCoverage = 0 THEN "no_coverage"
                   ELSE IF coverage = {} THEN "unknown"
                   ELSE IF \A i \in coverage : v.deductionItems[i].isVerified
                        THEN "confirmed"
                   ELSE "unconfirmed")
            /\ v.coverageStatus = "unconfirmed" =>
                  /\ \E k \in DOMAIN v.issues : v.issues[k] = "coverage_not_verified"
                  /\ ~v.validationPassed

\* C24 witness: hmoCoverage = 12000 with no breakdown: an undocumented synthesized
\* item, coverage unconfirmed, the warning among the issues, validation failed
C24_Witness ==
    /\ deductionValidation # <<>>
    /\ validatedFinancials # <<>>
    /\ validatedFinancials[1].deductionBreakdown = <<>>
    /\ validatedFinancials[1].hmoCoverage = 1200000
    /\ validatedFinancials[1].philhealthCoverage = 0
    /\ validatedFinancials[1].discounts = 0
    /\ validatedFinancials[1].payments = 0
    /\ Len(deductionValidation[1].deductionItems) = 1
    /\ ~deductionValidation[1].deductionItems[1].hasDocumentation
    /\ deductionValidation[1].coverageStatus = "unconfirmed"
    /\ ~deductionValidation[1].validationPassed

\* C27: validateDeductions does not modify its argument: after the call
\* financials.deductionBreakdown holds the items it held before, and a second call on
\* the same financials returns a result equal to the first, issues included.
C27_ArgumentUnmodified ==
    (deductionValidation # <<>> /\ validatedFinancials # <<>>) =>
        /\ financials[1].deductionBreakdown = validatedFinancials[1].deductionBreakdown
        /\ revalidation # <<>> => revalidation[1] = deductionValidation[1]

\* C28: the deduction total that is validated is the deduction total that is applied:
\* totalDeductions equals discounts + payments + hmoCoverage + philhealthCoverage,
\* the sum the balance check subtracts from the subtotal, with or without an itemized
\* breakdown.
C28_ValidatedTotalIsAppliedTotal ==
    (deductionValidation # <<>> /\ validatedFinancials # <<>>) =>
        deductionValidation[1].totalDeductions =
            validatedFinancials[1].discounts + validatedFinancials[1].payments
            + validatedFinancials[1].hmoCoverage
            + validatedFinancials[1].philhealthCoverage

----------------------------------------------------------------------------
(* Claims about the analyze-bill request *)

\* the request was answered with an analysis report
Reported == response # <<>> /\ response[1].kind = "report"

\* C6: when the extraction of the financial data fails entirely and no subtotal or
\* balance is obtained otherwise, a request that is answered with a report gets a
\* degraded one: couldVerifyMath is false and no verified calculation is reported.
C6_FailedExtractionDegrades ==
    (extractionFailed /\ Reported
        /\ response[1].billSubtotal = 0 /\ response[1].statedTotal = 0) =>
        /\ ~response[1].couldVerifyMath
        /\ response[1].overallAssessment # "CORRECTLY CHARGED - All calculations verified"

\* C7: chargeStatus is CORRECTLY_CHARGED iff subtotalCheck and balanceCheck are both
\* CORRECT; otherwise UNDERCHARGED if subtotalCheck is UNDERCHARGED_SUBTOTAL or
\* balanceCheck is PATIENT_UNDERCHARGED; otherwise OVERCHARGED. affectedParty is
\* hospital iff UNDERCHARGED, patient iff OVERCHARGED, none iff CORRECTLY_CHARGED.
C7_CombinedVerdict ==
    Reported =>
        LET r == response[1]
            bothCorrect == r.subtotalCheck = "CORRECT" /\ r.balanceCheck = "CORRECT"
            undercharge == \/ r.subtotalCheck = "UNDERCHARGED_SUBTOTAL"
                           \/ r.balanceCheck = "PATIENT_UNDERCHARGED"
        IN  /\ r.chargeStatus = (IF bothCorrect THEN "CORRECTLY_CHARGED"
                                 ELSE IF undercharge THEN "UNDERCHARGED"
                                 ELSE "OVERCHARGED")
            /\ r.affectedParty = "hospital" <=> r.chargeStatus = "UNDERCHARGED"
            /\ r.affectedParty = "patient" <=> r.chargeStatus = "OVERCHARGED"
            /\ r.affectedParty = "none" <=> r.chargeStatus = "CORRECTLY_CHARGED"

\* C7 witness: an overcharged subtotal together with an undercharged balance is
\* reported as UNDERCHARGED
C7_Witness ==
    /\ Reported
    /\ response[1].subtotalCheck = "OVERCHARGED_SUBTOTAL"
    /\ response[1].balanceCheck = "PATIENT_UNDERCHARGED"
    /\ response[1].chargeStatus = "UNDERCHARGED"
    /\ response[1].affectedParty = "hospital"

\* C8: for every calculated line-items total and stated subtotal, subtotalCheck is
\* CORRECT iff they differ by at most 10 pesos; outside that tolerance it is
\* UNDERCHARGED_SUBTOTAL if the calculated total is the greater one, else
\* OVERCHARGED_SUBTOTAL.
C8_SubtotalCheck ==
    Reported =>
        LET r == response[1]
            diff == r.calculatedLineItemsTotal - r.billSubtotal
        IN  r.subtotalCheck = (IF Abs(diff) <= CHECK_TOLERANCE THEN "CORRECT"
                               ELSE IF diff > 0 THEN "UNDERCHARGED_SUBTOTAL"
                               ELSE "OVERCHARGED_SUBTOTAL")

\* C9: with expectedBalance the stated subtotal minus discounts, payments, HMO and
\* PhilHealth coverage, balanceCheck is CORRECT iff expectedBalance and balanceDue
\* differ by at most 10 pesos; outside that tolerance it is PATIENT_UNDERCHARGED if
\* expectedBalance is the greater one, else PATIENT_OVERCHARGED.
C9_BalanceCheck ==
    Reported =>
        LET r == response[1]
            expectedBalance == r.billSubtotal - (r.discounts + r.payments
                                   + r.hmoCoverage + r.philhealthCoverage)
            diff == expectedBalance - r.statedTotal
        IN  r.balanceCheck = (IF Abs(diff) <= CHECK_TOLERANCE THEN "CORRECT"
                              ELSE IF diff > 0 THEN "PATIENT_UNDERCHARGED"
                              ELSE "PATIENT_OVERCHARGED")

\* C10: each failing check has exactly one error record in the items of the report,
\* with the absolute delta and impact hospital for an undercharge result, patient for
\* an overcharge result; these records come first, subtotal before balance, ahead of
\* the item-level results; totalDiscrepancy is the sum of the absolute deltas of the
\* failing checks, 0 when both pass.
C10_ErrorRecords ==
    Reported =>
        LET r == response[1]
            subtotalDelta == Abs(r.calculatedLineItemsTotal - r.billSubtotal)
            balanceDelta  == Abs(r.billSubtotal - (r.discounts + r.payments
                                   + r.hmoCoverage + r.philhealthCoverage)
                                 - r.statedTotal)
            subtotalFails == r.subtotalCheck # "CORRECT"
            balanceFails  == r.balanceCheck # "CORRECT"
            failing == (IF subtotalFails THEN 1 ELSE 0) + (IF balanceFails THEN 1 ELSE 0)
        IN  /\ Len(r.items) >= failing
            /\ \A i \in DOMAIN r.items : r.items[i].status = "error" <=> i <= failing
            /\ subtotalFails =>
                  /\ r.items[1].name \in {"SUBTOTAL UNDERCHARGE", "SUBTOTAL OVERCHARGE"}
                  /\ r.items[1].delta = subtotalDelta
                  /\ r.items[1].impact = (IF r.subtotalCheck = "UNDERCHARGED_SUBTOTAL"
                                          THEN "hospital" ELSE "patient")
            /\ balanceFails =>
                  /\ r.items[failing].name \in {"PATIENT BALANCE UNDERCHARGE",
                                                "PATIENT BALANCE OVERCHARGE"}
                  /\ r.items[failing].delta = balanceDelta
                  /\ r.items[failing].impact = (IF r.balanceCheck = "PATIENT_UNDERCHARGED"
                                                THEN "hospital" ELSE "patient")
            /\ r.totalDiscrepancy = (IF subtotalFails THEN subtotalDelta ELSE 0)
                                      + (IF balanceFails THEN balanceDelta ELSE 0)

\* C10 witness: calculated 43,883.98, subtotal 45,000, discounts 1,000, balance due
\* 44,500: both checks report an overcharge and totalDiscrepancy is 1,616.02
C10_Witness ==
    /\ Reported
    /\ response[1].calculatedLineItemsTotal = 4388398
    /\ response[1].billSubtotal = 4500000
    /\ response[1].discounts = 100000
    /\ response[1].statedTotal = 4450000
    /\ response[1].subtotalCheck = "OVERCHARGED_SUBTOTAL"
    /\ response[1].balanceCheck = "PATIENT_OVERCHARGED"
    /\ response[1].chargeStatus = "OVERCHARGED"
    /\ response[1].totalDiscrepancy = 161602
    /\ Len(response[1].items) > 2

\* C29: when the deduction validation fails with unverifiedDeductions above zero, the
\* items of the response contain the summary record "UNVERIFIED DEDUCTIONS" (total =
\* unverifiedDeductions, status warning) in addition to one warning item per
\* unverified deduction with a positive amount, and hasErrors is true.
C29_UnverifiedSummaryInItems ==
    Reported =>
        LET r == response[1]
            v == r.deductionValidation
            unverified == SelectSeq(v.deductionItems,
                                    LAMBDA item : ~item.isVerified /\ item.amount > 0)
            warnings == SelectSeq(r.items,
                                  LAMBDA item : item.status = "warning"
                                                /\ item.name # "UNVERIFIED DEDUCTIONS")
        IN  (~v.validationPassed /\ v.unverifiedDeductions > 0) =>
                /\ \E i \in DOMAIN r.items :
                      /\ r.items[i].name = "UNVERIFIED DEDUCTIONS"
                      /\ r.items[i].total = v.unverifiedDeductions
                      /\ r.items[i].status = "warning"
                /\ Len(warnings) >= Len(unverified)
                /\ r.hasErrors

====
